---- MODULE Spec2Model ----
(***************************************************************************)
(* Verification model of the multi-agent analytics service:                *)
(*   src/src/orchestrator.py     Orchestrator (intent routing, fan-out,    *)
(*                               aggregation)                              *)
(*   src/src/analytics_agent.py  AnalyticsAgent (Parse, Validate, Execute, *)
(*                               Synthesize)                               *)
(*   src/src/seo_agent.py        SEOAgent (Fetch, Parse, ColumnResolve,    *)
(*                               Transform, Synthesize)                    *)
(* Text is modelled by TLA+ strings; an Optional value is the empty tuple  *)
(* (None) or a one-element tuple.                                          *)
(***************************************************************************)
EXTENDS Integers, Sequences, FiniteSets, TLC

\* ------------------------------------------------------------------------
\* Bounds of the model
\* ------------------------------------------------------------------------

\* Longest task list the decomposition capability returns.
MaxTasks == 2

\* ------------------------------------------------------------------------
\* Python values
\* ------------------------------------------------------------------------

None == << >>

Some(v) == << v >>

\* bool(x) of an Optional[str]: None and "" are falsy.
Truthy(o) == o # None /\ o[1] # ""

\* Python's `a or b` on Optional[str].
OrElse(a, b) == IF Truthy(a) THEN a ELSE b

LowerChar(c) ==
    CASE c = "A" -> "a" [] c = "B" -> "b" [] c = "C" -> "c" [] c = "D" -> "d"
      [] c = "E" -> "e" [] c = "F" -> "f" [] c = "G" -> "g" [] c = "H" -> "h"
      [] c = "I" -> "i" [] c = "J" -> "j" [] c = "K" -> "k" [] c = "L" -> "l"
      [] c = "M" -> "m" [] c = "N" -> "n" [] c = "O" -> "o" [] c = "P" -> "p"
      [] c = "Q" -> "q" [] c = "R" -> "r" [] c = "S" -> "s" [] c = "T" -> "t"
      [] c = "U" -> "u" [] c = "V" -> "v" [] c = "W" -> "w" [] c = "X" -> "x"
      [] c = "Y" -> "y" [] c = "Z" -> "z" [] OTHER -> c

RECURSIVE Lower(_)
\* str.lower()
Lower(s) == IF s = "" THEN "" ELSE LowerChar(Head(s)) \o Lower(Tail(s))

\* Python's `k in s` on strings.
Contains(k, s) ==
    \E i \in 1..(Len(s) - Len(k) + 1) : SubSeq(s, i, i + Len(k) - 1) = k

IsSpace(c) == c \in {" ", "\n", "\t"}

RECURSIVE LStrip(_)
LStrip(s) == IF s # "" /\ IsSpace(Head(s)) THEN LStrip(Tail(s)) ELSE s

RECURSIVE RStrip(_)
RStrip(s) ==
    IF s # "" /\ IsSpace(SubSeq(s, Len(s), Len(s)))
    THEN RStrip(SubSeq(s, 1, Len(s) - 1))
    ELSE s

\* str.strip()
Strip(s) == RStrip(LStrip(s))

RECURSIVE Replace(_, _)
\* str.replace(old, ''): every occurrence of old removed, left to right.
Replace(s, old) ==
    IF Len(s) < Len(old) THEN s
    ELSE IF SubSeq(s, 1, Len(old)) = old
         THEN Replace(SubSeq(s, Len(old) + 1, Len(s)), old)
         ELSE Head(s) \o Replace(Tail(s), old)

IsDigitChar(c) == c \in {"0", "1", "2", "3", "4", "5", "6", "7", "8", "9"}

\* str.isdigit(): non-empty and every character a digit.
IsDigit(s) ==
    /\ s # ""
    /\ \A i \in 1..Len(s) : IsDigitChar(SubSeq(s, i, i))

\* Elements of a list as a set.
Range(f) == { f[i] : i \in DOMAIN f }

\* ------------------------------------------------------------------------
\* AnalyticsAgent: catalogs (class attributes)
\* ------------------------------------------------------------------------

CORE_METRICS ==
    { "activeUsers", "newUsers", "sessions", "screenPageViews", "bounceRate",
      "averageSessionDuration", "sessionsPerUser", "engagedSessions",
      "engagementRate" }

EXTENDED_METRICS ==
    { "eventCount", "conversions", "totalRevenue", "ecommercePurchases",
      "transactions", "itemRevenue", "addToCarts", "checkouts", "itemsViewed",
      "itemsPurchased" }

EXTENDED_TRIGGERS ==
    << "revenue", "sales", "transactions", "purchase", "ecommerce",
       "e-commerce", "conversions", "convert", "events", "event count",
       "cart", "checkout", "order", "buy", "bought", "sold", "money",
       "income", "earnings", "item" >>

CORE_DIMENSIONS ==
    { "pagePath", "pageTitle", "deviceCategory", "country", "city", "date",
      "sessionSource", "sessionMedium", "sessionCampaignName", "browser",
      "operatingSystem", "language", "landingPage" }

EXTENDED_DIMENSIONS ==
    { "eventName", "transactionId", "itemName", "itemCategory", "itemBrand" }

DEFAULT_DATE_RANGE == << "7daysAgo", "today" >>

\* ------------------------------------------------------------------------
\* Responses
\* ------------------------------------------------------------------------

\* The {answer, data, agent_used} dict every pipeline returns.
Resp(answer, data, agent) ==
    [answer |-> answer, data |-> data, agent_used |-> agent]

\* Placeholder of a response variable that has not been assigned yet.
NoResp == Resp("", None, "")

\* GA4PropertyError text raised by AnalyticsAgent.process for a missing id.
PropertyRequiredMsg ==
    "GA4 Property ID is required. Please provide 'propertyId' in your request "
    \o "(e.g., '123456789'). You can find this in Google Analytics under "
    \o "Admin > Property Settings."

\* GA4PropertyError text of GA4Client.validate_property_id for a bad format.
PropertyFormatMsg(pid) ==
    "Invalid Property ID format: '" \o pid \o "'. "
    \o "Property ID should be a numeric value (e.g., '123456789')."

\* ------------------------------------------------------------------------
\* AnalyticsAgent: stage 1, _parse_query
\* ------------------------------------------------------------------------

\* Defaults returned when the extraction call raises.
ParseDefaults ==
    [metrics |-> << "users" >>, dimensions |-> << >>,
     start_date |-> DEFAULT_DATE_RANGE[1], end_date |-> DEFAULT_DATE_RANGE[2],
     limit |-> 10]

\* "Ensure required fields": a missing or falsy entry ("" or 0 or an empty
\* list) is replaced by its default.
EnsureRequired(result) ==
    [metrics |-> IF result.metrics = << >> THEN << "users" >>
                 ELSE result.metrics,
     dimensions |-> result.dimensions,
     start_date |-> IF result.start_date = "" THEN DEFAULT_DATE_RANGE[1]
                    ELSE result.start_date,
     end_date |-> IF result.end_date = "" THEN DEFAULT_DATE_RANGE[2]
                  ELSE result.end_date,
     limit |-> IF result.limit = 0 THEN 10 ELSE result.limit]

\* _parse_query on one outcome of llm_client.chat(json_mode=True):
\* kind "dict" is a parsed JSON object, kind "nondict" any other JSON value
\* (result.get raises AttributeError), kind "raise" an exception of the call.
\* The last two are absorbed by `except Exception`.
_parse_query(out) ==
    IF out.kind = "dict" THEN EnsureRequired(out.result) ELSE ParseDefaults

\* ------------------------------------------------------------------------
\* AnalyticsAgent: stage 2, _resolve_and_validate
\* ------------------------------------------------------------------------

\* Smallest element of a non-empty set of integers.
Min(S) == CHOOSE x \in S : \A y \in S : x <= y

\* A trigger check that looks at the query text only.
CheckExtendedTriggersMutant(q, metrics, dimensions, enabled, reason) ==
    LET query_lower == Lower(q)
        hits == { i \in DOMAIN EXTENDED_TRIGGERS :
                    Contains(EXTENDED_TRIGGERS[i], query_lower) }
    IN  IF hits # {}
        THEN [enabled |-> TRUE,
              reason |-> "query mentions '" \o EXTENDED_TRIGGERS[Min(hits)]
                          \o "'"]
        ELSE [enabled |-> enabled, reason |-> reason]

\* A trigger check that does not look at the parsed dimensions.
CheckExtendedMetricsMutant(q, metrics, dimensions, enabled, reason) ==
    LET query_lower == Lower(q)
        hits == { i \in DOMAIN EXTENDED_TRIGGERS :
                    Contains(EXTENDED_TRIGGERS[i], query_lower) }
        mhits == { i \in DOMAIN metrics : metrics[i] \in EXTENDED_METRICS }
    IN  IF hits # {}
        THEN [enabled |-> TRUE,
              reason |-> "query mentions '" \o EXTENDED_TRIGGERS[Min(hits)]
                          \o "'"]
        ELSE IF mhits # {}
        THEN [enabled |-> TRUE,
              reason |-> "metric '" \o metrics[Min(mhits)]
                          \o "' requires extended tier"]
        ELSE [enabled |-> enabled, reason |-> reason]

\* _check_extended_triggers: the new (_extended_enabled, _extended_reason).
\* The first trigger keyword found in the lower-cased query wins, then the
\* first extended metric, then the first extended dimension; otherwise the
\* fields keep their values.
_check_extended_triggers(q, metrics, dimensions, enabled, reason) ==
    LET query_lower == Lower(q)
        hits == { i \in DOMAIN EXTENDED_TRIGGERS :
                    Contains(EXTENDED_TRIGGERS[i], query_lower) }
        mhits == { i \in DOMAIN metrics : metrics[i] \in EXTENDED_METRICS }
        dhits == { i \in DOMAIN dimensions :
                     dimensions[i] \in EXTENDED_DIMENSIONS }
    IN  IF hits # {}
        THEN [enabled |-> TRUE,
              reason |-> "query mentions '" \o EXTENDED_TRIGGERS[Min(hits)]
                          \o "'"]
        ELSE IF mhits # {}
        THEN [enabled |-> TRUE,
              reason |-> "metric '" \o metrics[Min(mhits)]
                          \o "' requires extended tier"]
        ELSE IF dhits # {}
        THEN [enabled |-> TRUE,
              reason |-> "dimension '" \o dimensions[Min(dhits)]
                          \o "' requires extended tier"]
        ELSE [enabled |-> enabled, reason |-> reason]

\* "Build current allowlist based on tier".
ValidMetrics(enabled) ==
    IF enabled THEN CORE_METRICS \cup EXTENDED_METRICS ELSE CORE_METRICS

ValidDimensions(enabled) ==
    IF enabled THEN CORE_DIMENSIONS \cup EXTENDED_DIMENSIONS
    ELSE CORE_DIMENSIONS

\* _validate_field: the field itself when it is in the allowlist, otherwise
\* a ValidationError. Both error texts begin with the field type and the
\* quoted field; that leading clause stands for the message here.
ValidateFieldMutant(field, valid_fields, field_type) ==
    [ok |-> TRUE, field |-> field, error |-> ""]

\* A validator that replaces an unknown field by a valid name containing it.
ValidateFieldSubstituteMutant(field, valid_fields, field_type) ==
    LET close == { v \in valid_fields : Contains(Lower(field), Lower(v)) }
    IN  IF field \in valid_fields
        THEN [ok |-> TRUE, field |-> field, error |-> ""]
        ELSE IF close # {}
        THEN [ok |-> TRUE, field |-> CHOOSE v \in close : TRUE, error |-> ""]
        ELSE [ok |-> FALSE, field |-> field,
              error |-> field_type \o " '" \o field \o "' is not"]

_validate_field(field, valid_fields, field_type) ==
    IF field \in valid_fields
    THEN [ok |-> TRUE, field |-> field, error |-> ""]
    ELSE [ok |-> FALSE, field |-> field,
          error |-> field_type \o " '" \o field \o "' is not"]

\* The validation loops of _resolve_and_validate: metrics first, then
\* dimensions; the first invalid field raises.
ValidateAll(metrics, dimensions, enabled) ==
    LET vm == [i \in DOMAIN metrics |->
                 _validate_field(metrics[i], ValidMetrics(enabled), "Metric")]
        vd == [i \in DOMAIN dimensions |->
                 _validate_field(dimensions[i], ValidDimensions(enabled),
                                 "Dimension")]
        badm == { i \in DOMAIN vm : ~vm[i].ok }
        badd == { i \in DOMAIN vd : ~vd[i].ok }
    IN  IF badm # {} THEN [ok |-> FALSE, error |-> vm[Min(badm)].error,
                           metrics |-> << >>, dimensions |-> << >>]
        ELSE IF badd # {} THEN [ok |-> FALSE, error |-> vd[Min(badd)].error,
                                metrics |-> << >>, dimensions |-> << >>]
        ELSE [ok |-> TRUE, error |-> "",
              metrics |-> [i \in DOMAIN vm |-> vm[i].field],
              dimensions |-> [i \in DOMAIN vd |-> vd[i].field]]

\* ------------------------------------------------------------------------
\* GA4Client.validate_property_id
\* ------------------------------------------------------------------------

ValidatePropertyIdMutant(pid) ==
    IF ~Truthy(pid) THEN [ok |-> FALSE, error |-> PropertyRequiredMsg]
    ELSE [ok |-> TRUE, error |-> ""]

validate_property_id(pid) ==
    IF ~Truthy(pid) THEN [ok |-> FALSE, error |-> PropertyRequiredMsg]
    ELSE LET clean_id == Strip(Replace(pid[1], "properties/"))
         IN  IF ~IsDigit(clean_id)
             THEN [ok |-> FALSE, error |-> PropertyFormatMsg(pid[1])]
             ELSE [ok |-> TRUE, error |-> ""]

\* ------------------------------------------------------------------------
\* Inputs of the model
\* ------------------------------------------------------------------------

\* Query texts submitted by the caller.
Queries ==
    { "top pages by sessions", "Revenue by country", "page titles as JSON" }

\* propertyId of the request.
PropertyIds == { None, Some("properties/42"), Some("abc") }

\* DEFAULT property id of the deployment.
DefaultPropertyIds == { None, Some("123456789") }

\* Outcomes of the analytics extraction call.
RawParse(m, d, s, e, l) ==
    [kind |-> "dict",
     result |-> [metrics |-> m, dimensions |-> d, start_date |-> s,
                 end_date |-> e, limit |-> l]]

\* Outcomes every query text may get: a parse naming core fields, a parse
\* naming an unknown metric, an exception of the call.
CommonParseOutcomes ==
    { RawParse(<< "sessions" >>, << "pagePath" >>, "", "", 5),
      RawParse(<< "sessions", "saless" >>, << >>, "", "", 0),
      [kind |-> "raise"] }

\* Outcomes considered for the request texts of Queries only: an object
\* without metrics, parses naming extended fields, a value that is no object.
RequestParseOutcomes ==
    { RawParse(<< >>, << >>, "30daysAgo", "today", 0),
      RawParse(<< "totalRevenue" >>, << "country" >>, "", "", 0),
      RawParse(<< "activeUsers" >>, << "itemName" >>, "", "", 0),
      [kind |-> "nondict"] }

\* Outcomes of the extraction call for the query q (None: no query text).
AnalyticsParseOutcomes(q) ==
    IF q # None /\ q[1] \in Queries
    THEN CommonParseOutcomes \cup RequestParseOutcomes
    ELSE CommonParseOutcomes

\* Row counts of a report.
RowCounts == { 0, 3, 11 }

\* Rows of a report; a row (a mapping of field names to values) is
\* represented by the rendering of its fields.
ReportRows(n) == [i \in 1..n |-> [rendering |-> "row" \o ToString(i)]]

\* GA4Client.MAX_RETRIES: attempts of one report request.
MAX_RETRIES == 3

\* Outcomes of GA4Client.run_report after the property id check. attempts
\* counts the API calls of _execute_with_retry: a response or a
\* GA4APIError comes with the first call or after retries of transient
\* errors; any other exception is raised outside the retry loop, here
\* while the request is built.
ReportOutcomes ==
    { [kind |-> "ok", n |-> n, attempts |-> a] :
        n \in RowCounts, a \in 1..MAX_RETRIES }
    \cup { [kind |-> "GA4APIError", n |-> 0, attempts |-> a] :
             a \in 1..MAX_RETRIES }
    \cup { [kind |-> "Exception", n |-> 0, attempts |-> 0] }

\* Outcomes of a text generation call: a text, a reply without text, or an
\* exception.
GenOutcomes == { [kind |-> "ok", text |-> "generated text"],
                 [kind |-> "ok", text |-> ""],
                 [kind |-> "raise", text |-> ""] }

\* ------------------------------------------------------------------------
\* State
\* ------------------------------------------------------------------------

VARIABLES
    query,                \* the request's query text
    property_id,          \* the request's propertyId argument
    default_property_id,  \* Orchestrator/AnalyticsAgent.default_property_id
    default_sheet_id,     \* Orchestrator/SEOAgent.default_sheet_id
    pc,                   \* position of Orchestrator.process_query
    json_requested,       \* result of _detect_json_request
    classification,       \* text returned by the classification call
    decomposition,        \* kind of value the decomposition call returned
    intent,               \* result of _detect_intent
    tasks,                \* decomposed task list
    slots,                \* one result slot per dispatched call
    running,              \* slot of the coroutine now executing, 0 if none
    run,                  \* locals of the executing agent pipeline
    results,              \* valid_results of _execute_tasks_parallel
    response,             \* response returned by process_query
    raised,               \* process_query ended by raising
    _extended_enabled,    \* AnalyticsAgent._extended_enabled
    _extended_reason,     \* AnalyticsAgent._extended_reason
    _available_columns,   \* SEOAgent._available_columns
    _cache,               \* SheetsClient._cache: sheet id -> table
    trace,                \* stages the executing pipeline has run
    runReportCalls,       \* calls of ga4_client.run_report by the pipeline
    generationCalls,      \* calls of the generation capability by the pipeline
    reported,             \* arguments and API attempts of the last
                          \* run_report call
    order,                \* slots in the order their calls completed
    outcome,              \* outcome of the last completed process() call
    all_answers,          \* answers placed in the synthesis prompt
    synthCalls            \* calls of the answer-synthesis capability

vars ==
    << query, property_id, default_property_id, default_sheet_id, pc,
       json_requested, classification, decomposition,
       intent, tasks, slots, running, run, results, response,
       raised, _extended_enabled, _extended_reason, _available_columns,
       _cache, trace, runReportCalls, generationCalls, reported, order, outcome,
       all_answers, synthCalls >>

inputVars == << query, property_id, default_property_id, default_sheet_id >>

orchVars == << pc, json_requested, classification, decomposition,
              intent, tasks, results,
               response, raised, all_answers, synthCalls >>

agentVars == << _extended_enabled, _extended_reason >>

seoVars == << _available_columns, _cache >>

INTENT_ANALYTICS == "analytics"

INTENT_SEO == "seo"

INTENT_MULTI == "multi-agent"

NoRun == [agent |-> "", stage |-> ""]

NoReport ==
    [property_id |-> None, metrics |-> << >>, dimensions |-> << >>,
     attempts |-> 0]

PendingSlot == [status |-> "pending", kind |-> "", res |-> NoResp]

\* ------------------------------------------------------------------------
\* Delivery of a pipeline's outcome to its caller
\* ------------------------------------------------------------------------

\* An outcome is a returned response or an exception leaving the call.
Returned(res) == [raised |-> FALSE, res |-> res]

Raised == [raised |-> TRUE, res |-> NoResp]

\* _route_to_analytics / _route_to_seo after the agent's process(): the
\* result's agent_used is overwritten with the route's intent label, and the
\* value becomes the result of the awaiting call (slot `running`).
Deliver(out) ==
    LET label == IF run.agent = "analytics" THEN INTENT_ANALYTICS
                 ELSE INTENT_SEO
        slot == IF out.raised
                THEN [status |-> "done", kind |-> "exc", res |-> NoResp]
                ELSE [status |-> "done", kind |-> "result",
                      res |-> [out.res EXCEPT !.agent_used = label]]
    IN  /\ slots' = [slots EXCEPT ![running] = slot]
        /\ order' = Append(order, running)
        /\ outcome' = out
        /\ running' = 0
        /\ run' = NoRun

\* ------------------------------------------------------------------------
\* AnalyticsAgent.process
\* ------------------------------------------------------------------------

NoParsed ==
    [metrics |-> << >>, dimensions |-> << >>, start_date |-> "",
     end_date |-> "", limit |-> 0]

NoData == [rows |-> << >>, row_count |-> 0, source |-> ""]

\* The keywords of Orchestrator._detect_json_request.
json_keywords ==
    << "json", "json format", "return as json", "give me json", "output json",
       "in json", "as json", "return json", "format json", "structured data" >>

\* _detect_json_request: purely lexical scan of the lower-cased query.
_detect_json_request(q) ==
    \E i \in DOMAIN json_keywords : Contains(json_keywords[i], Lower(q))

\* Arguments and locals of process() at its entry; extraction records how
\* the extraction call of _parse_query ended.
AnalyticsRun(q, pid, json) ==
    [agent |-> "analytics", stage |-> "begin", query |-> q,
     property_id |-> pid, json_requested |-> json,
     resolved_property_id |-> None,
     extraction |-> "", parsed |-> NoParsed,
     metrics |-> << >>, dimensions |-> << >>, data |-> NoData]

\* The except clauses of process(): every exception type becomes a response
\* without data.
AnalyticsExceptMutant(type, msg) ==
    IF type \in {"GA4PropertyError", "ValidationError"}
    THEN Returned(Resp(msg, None, "analytics"))
    ELSE IF type = "GA4APIError"
    THEN Returned(Resp("Error querying Google Analytics: " \o msg, None,
                       "analytics"))
    ELSE Raised

AnalyticsExcept(type, msg) ==
    IF type \in {"GA4PropertyError", "ValidationError"}
    THEN Returned(Resp(msg, None, "analytics"))
    ELSE IF type = "GA4APIError"
    THEN Returned(Resp("Error querying Google Analytics: " \o msg, None,
                       "analytics"))
    ELSE Returned(Resp("An error occurred processing your analytics query: "
                       \o msg, None, "analytics"))

\* Whether process() goes on to the Parse stage: the resolved property id is
\* truthy.
HasPropertyMutant(resolved) == TRUE

HasProperty(resolved) == Truthy(resolved)

\* A process() that keeps the tier fields of the previous call.
A_BeginMutant ==
    /\ running # 0 /\ run.agent = "analytics" /\ run.stage = "begin"
    /\ LET resolved == OrElse(run.property_id, default_property_id)
       IN  IF ~HasProperty(resolved)
           THEN Deliver(AnalyticsExcept("GA4PropertyError",
                                        PropertyRequiredMsg))
           ELSE /\ run' = [run EXCEPT !.stage = "parse",
                                      !.resolved_property_id = resolved]
                /\ UNCHANGED << slots, running, order, outcome >>
    /\ UNCHANGED << inputVars, orchVars, agentVars, seoVars, trace,
                    runReportCalls, generationCalls, reported >>

\* process(), up to the property check: the tier fields are reset and a
\* missing property id raises GA4PropertyError before any stage runs.
A_Begin ==
    /\ running # 0 /\ run.agent = "analytics" /\ run.stage = "begin"
    /\ _extended_enabled' = FALSE
    /\ _extended_reason' = ""
    /\ LET resolved == OrElse(run.property_id, default_property_id)
       IN  IF ~HasProperty(resolved)
           THEN Deliver(AnalyticsExcept("GA4PropertyError",
                                        PropertyRequiredMsg))
           ELSE /\ run' = [run EXCEPT !.stage = "parse",
                                      !.resolved_property_id = resolved]
                /\ UNCHANGED << slots, running, order, outcome >>
    /\ UNCHANGED << inputVars, orchVars, seoVars, trace, runReportCalls,
                    generationCalls,
                    reported >>

\* Stage 1: _parse_query never raises.
A_Parse ==
    /\ running # 0 /\ run.agent = "analytics" /\ run.stage = "parse"
    /\ \E out \in AnalyticsParseOutcomes(run.query) :
          run' = [run EXCEPT !.stage = "validate", !.extraction = out.kind,
                             !.parsed = _parse_query(out)]
    /\ trace' = Append(trace, "Parse")
    /\ UNCHANGED << inputVars, orchVars, agentVars, seoVars, slots, running,
                    order, outcome, runReportCalls, generationCalls, reported >>

\* Stage 2: _resolve_and_validate. A query that is None raises
\* AttributeError at query.lower(); an invalid field raises ValidationError
\* after the tier fields were set.
A_Validate ==
    /\ running # 0 /\ run.agent = "analytics" /\ run.stage = "validate"
    /\ trace' = Append(trace, "Validate")
    /\ IF run.query = None
       THEN /\ Deliver(AnalyticsExcept("AttributeError",
                         "'NoneType' object has no attribute 'lower'"))
            /\ UNCHANGED agentVars
       ELSE LET tier == _check_extended_triggers(run.query[1],
                            run.parsed.metrics, run.parsed.dimensions,
                            _extended_enabled, _extended_reason)
                v == ValidateAll(run.parsed.metrics, run.parsed.dimensions,
                                 tier.enabled)
            IN  /\ _extended_enabled' = tier.enabled
                /\ _extended_reason' = tier.reason
                /\ IF ~v.ok
                   THEN Deliver(AnalyticsExcept("ValidationError", v.error))
                   ELSE /\ run' = [run EXCEPT !.stage = "execute",
                                              !.metrics = v.metrics,
                                              !.dimensions = v.dimensions]
                        /\ UNCHANGED << slots, running, order, outcome >>
    /\ UNCHANGED << inputVars, orchVars, seoVars, runReportCalls,
                    generationCalls, reported >>

\* Stage 3: ga4_client.run_report. The property id is checked first
\* (GA4PropertyError); then the report is built, executed and parsed.
A_Execute ==
    /\ running # 0 /\ run.agent = "analytics" /\ run.stage = "execute"
    /\ trace' = Append(trace, "Execute")
    /\ runReportCalls' = runReportCalls + 1
    /\ UNCHANGED generationCalls
    /\ LET chk == validate_property_id(run.resolved_property_id)
           call == [property_id |-> run.resolved_property_id,
                    metrics |-> run.metrics, dimensions |-> run.dimensions,
                    attempts |-> 0]
       IN  IF ~chk.ok
           THEN /\ reported' = call
                /\ Deliver(AnalyticsExcept("GA4PropertyError", chk.error))
           ELSE \E out \in ReportOutcomes :
                  /\ reported' = [call EXCEPT !.attempts = out.attempts]
                  /\ IF out.kind = "ok"
                     THEN /\ run' = [run EXCEPT !.stage = "synthesize",
                                       !.data = [rows |-> ReportRows(out.n),
                                                 row_count |-> out.n,
                                                 source |-> "ga4"]]
                          /\ UNCHANGED << slots, running, order, outcome >>
                     ELSE Deliver(AnalyticsExcept(out.kind,
                                     IF out.kind = "GA4APIError"
                                     THEN "GA4 API temporarily unavailable"
                                     ELSE "unexpected error"))
    /\ UNCHANGED << inputVars, orchVars, agentVars, seoVars >>

\* _generate_nl_response: the fixed text for an empty report, otherwise the
\* generated text, or the fallback when the generation call raises.
_generate_nl_response(data, parsed, gen) ==
    IF data.row_count = 0
    THEN "No data found for the specified query. This could mean:\n"
         \o "- No traffic during the date range (" \o parsed.start_date
         \o " to " \o parsed.end_date \o ")\n"
         \o "- The requested dimensions/metrics have no recorded values\n"
         \o "- The property ID may not have the expected data"
    ELSE IF gen.kind = "ok" THEN gen.text
    ELSE "Results for your query: " \o data.rows[1].rendering \o " (and "
         \o ToString(Len(data.rows) - 1) \o " more rows)"

\* A synthesis that has lost the tier: no acknowledgment prefix.
AcknowledgmentMutant(enabled, reason) == ""

\* "Build acknowledgment prefix if extended metrics were used".
Acknowledgment(enabled, reason) ==
    IF enabled
    THEN "(Note: Including extended metrics to answer your " \o reason
         \o ".) "
    ELSE ""

\* Stage 4: _synthesize_response.
AnalyticsSynthesize(data, parsed, json, enabled, reason, gen) ==
    LET acknowledgment == Acknowledgment(enabled, reason)
    IN  IF json
        THEN Resp(acknowledgment \o "Results returned in JSON format.",
                  Some(data), "analytics")
        ELSE LET nl_response == _generate_nl_response(data, parsed, gen)
             IN  IF data.row_count > 10
                 THEN Resp(acknowledgment \o nl_response, Some(data),
                           "analytics")
                 ELSE Resp(acknowledgment \o nl_response, None, "analytics")

\* A synthesis that asks for generated text for every non-JSON answer.
NeedsGenerationMutant(json, row_count) == ~json

\* The generation capability is called for a non-JSON answer about a
\* non-empty report only.
NeedsGeneration(json, row_count) == ~json /\ row_count # 0

A_Synthesize ==
    /\ running # 0 /\ run.agent = "analytics" /\ run.stage = "synthesize"
    /\ trace' = Append(trace, "Synthesize")
    /\ \E gen \in GenOutcomes :
          /\ NeedsGeneration(run.json_requested, run.data.row_count)
                \/ gen.kind = "ok"
          /\ Deliver(Returned(AnalyticsSynthesize(run.data, run.parsed,
                run.json_requested, _extended_enabled, _extended_reason,
                gen)))
    /\ generationCalls' =
          IF NeedsGeneration(run.json_requested, run.data.row_count)
          THEN generationCalls + 1 ELSE generationCalls
    /\ UNCHANGED << inputVars, orchVars, agentVars, seoVars, runReportCalls,
                    reported >>

\* ------------------------------------------------------------------------
\* SEOAgent: column resolution
\* ------------------------------------------------------------------------

\* Semantic alias map: lower-case user term -> Screaming Frog column.
COLUMN_ALIASES ==
       ("url" :> "Address")
    @@ ("urls" :> "Address")
    @@ ("address" :> "Address")
    @@ ("page" :> "Address")
    @@ ("pages" :> "Address")
    @@ ("link" :> "Address")
    @@ ("links" :> "Address")
    @@ ("title" :> "Title 1")
    @@ ("page title" :> "Title 1")
    @@ ("titles" :> "Title 1")
    @@ ("title tag" :> "Title 1")
    @@ ("title tags" :> "Title 1")
    @@ ("title 1" :> "Title 1")
    @@ ("title length" :> "Title 1 Length")
    @@ ("title len" :> "Title 1 Length")
    @@ ("meta description" :> "Meta Description 1")
    @@ ("meta descriptions" :> "Meta Description 1")
    @@ ("description" :> "Meta Description 1")
    @@ ("descriptions" :> "Meta Description 1")
    @@ ("meta desc" :> "Meta Description 1")
    @@ ("meta description 1" :> "Meta Description 1")
    @@ ("meta description length" :> "Meta Description 1 Length")
    @@ ("description length" :> "Meta Description 1 Length")
    @@ ("h1" :> "H1-1")
    @@ ("h1s" :> "H1-1")
    @@ ("h1 tag" :> "H1-1")
    @@ ("h1 tags" :> "H1-1")
    @@ ("heading" :> "H1-1")
    @@ ("headings" :> "H1-1")
    @@ ("h1-1" :> "H1-1")
    @@ ("h1 length" :> "H1-1 Length")
    @@ ("h2" :> "H2-1")
    @@ ("h2s" :> "H2-1")
    @@ ("h2-1" :> "H2-1")
    @@ ("status" :> "Status Code")
    @@ ("status code" :> "Status Code")
    @@ ("http status" :> "Status Code")
    @@ ("response code" :> "Status Code")
    @@ ("status codes" :> "Status Code")
    @@ ("indexable" :> "Indexability")
    @@ ("indexability" :> "Indexability")
    @@ ("index status" :> "Indexability")
    @@ ("indexed" :> "Indexability")
    @@ ("indexability status" :> "Indexability Status")
    @@ ("word count" :> "Word Count")
    @@ ("words" :> "Word Count")
    @@ ("content length" :> "Word Count")
    @@ ("canonical" :> "Canonical Link Element 1")
    @@ ("canonical url" :> "Canonical Link Element 1")
    @@ ("canonical link" :> "Canonical Link Element 1")
    @@ ("redirect" :> "Redirect URL")
    @@ ("redirect url" :> "Redirect URL")
    @@ ("redirects" :> "Redirect URL")
    @@ ("redirect to" :> "Redirect URL")
    @@ ("content type" :> "Content Type")
    @@ ("content" :> "Content Type")
    @@ ("type" :> "Content Type")
    @@ ("inlinks" :> "Inlinks")
    @@ ("internal links" :> "Inlinks")
    @@ ("outlinks" :> "Outlinks")
    @@ ("external links" :> "Outlinks")
    @@ ("unique inlinks" :> "Unique Inlinks")
    @@ ("unique outlinks" :> "Unique Outlinks")
    @@ ("size" :> "Size (Bytes)")
    @@ ("page size" :> "Size (Bytes)")
    @@ ("response time" :> "Response Time")
    @@ ("load time" :> "Response Time")
    @@ ("crawl depth" :> "Crawl Depth")
    @@ ("depth" :> "Crawl Depth")
    @@ ("level" :> "Crawl Depth")

\* FUZZY_THRESHOLD = 0.8, kept as the fraction FUZZY_NUM / FUZZY_DEN.
FUZZY_NUM == 8

FUZZY_DEN == 10

Max(S) == CHOOSE x \in S : \A y \in S : x >= y

RECURSIVE Extent(_, _, _, _)
\* Length of the common block of a and b that starts at a[i] and b[j].
Extent(a, b, i, j) ==
    IF i > Len(a) \/ j > Len(b) THEN 0
    ELSE IF SubSeq(a, i, i) # SubSeq(b, j, j) THEN 0
    ELSE 1 + Extent(a, b, i + 1, j + 1)

\* Every common block of a and b as <<length, start in a, start in b>>.
Blocks(a, b) ==
    { << Extent(a, b, p[1], p[2]), p[1], p[2] >> :
        p \in (1..Len(a)) \X (1..Len(b)) }

\* find_longest_match: the longest block; of those the earliest in a; of
\* those the earliest in b.
LongestBlock(blocks) ==
    LET k == Max({ t[1] : t \in blocks })
        withK == { t \in blocks : t[1] = k }
        i == Min({ t[2] : t \in withK })
        j == Min({ t[3] : t \in { u \in withK : u[2] = i } })
    IN  << k, i, j >>

RECURSIVE Matches(_, _)
\* Number of matched characters of difflib.SequenceMatcher(None, a, b): the
\* longest common block, then the same to its left and to its right.
Matches(a, b) ==
    IF a = "" \/ b = "" THEN 0
    ELSE LET blk == LongestBlock(Blocks(a, b))
         IN  IF blk[1] = 0 THEN 0
             ELSE blk[1]
                  + Matches(SubSeq(a, 1, blk[2] - 1),
                            SubSeq(b, 1, blk[3] - 1))
                  + Matches(SubSeq(a, blk[2] + blk[1], Len(a)),
                            SubSeq(b, blk[3] + blk[1], Len(b)))

\* SequenceMatcher.ratio() = 2*M/T as the fraction <<numerator, denominator>>;
\* two empty strings have ratio 1.
Ratio(a, b) ==
    IF Len(a) + Len(b) = 0 THEN << 1, 1 >>
    ELSE << 2 * Matches(a, b), Len(a) + Len(b) >>

\* r > q on fractions with positive denominators.
RatioGT(r, q) == r[1] * q[2] > q[1] * r[2]

\* r >= num/den.
RatioGE(r, num, den) == r[1] * den >= num * r[2]

\* A loop that replaces the best match on an equal ratio (>=): the last
\* candidate reaching the highest ratio.
FuzzyMatchMutant(term, candidates) ==
    LET term_lower == Lower(term)
        ratio == [i \in DOMAIN candidates |->
                    Ratio(term_lower, Lower(candidates[i]))]
        best == { i \in DOMAIN candidates :
                    \A h \in DOMAIN candidates :
                        ~RatioGT(ratio[h], ratio[i]) }
    IN  IF best = {} THEN None
        ELSE LET b == Max(best)
             IN  IF RatioGE(ratio[b], FUZZY_NUM, FUZZY_DEN)
                 THEN Some(candidates[b])
                 ELSE None

\* _fuzzy_match: the first candidate reaching the highest ratio, when that
\* ratio is positive and at least the threshold; None otherwise.
_fuzzy_match(term, candidates) ==
    LET term_lower == Lower(term)
        ratio == [i \in DOMAIN candidates |->
                    Ratio(term_lower, Lower(candidates[i]))]
        best == { i \in DOMAIN candidates :
                    /\ ratio[i][1] > 0
                    /\ \A h \in DOMAIN candidates :
                         /\ ~RatioGT(ratio[h], ratio[i])
                         /\ h < i => RatioGT(ratio[i], ratio[h]) }
    IN  IF best = {} THEN None
        ELSE LET b == Min(best)
             IN  IF RatioGE(ratio[b], FUZZY_NUM, FUZZY_DEN)
                 THEN Some(candidates[b])
                 ELSE None

\* Result of _resolve_single_column.
Resolved(column, warning) ==
    [status |-> "resolved", column |-> column, warning |-> warning,
     error |-> ""]

Unresolved(error) ==
    [status |-> "error", column |-> "", warning |-> "", error |-> error]

\* _resolve_single_column: alias (with a fuzzy match on the alias target when
\* the target column is absent), then case-insensitive direct match, then
\* fuzzy match on the term, then the error. The error text is represented by
\* its leading sentence.
_resolve_single_column(user_field, available_columns) ==
    LET user_field_lower == Strip(Lower(user_field))
        cols == Range(available_columns)
        aliased == user_field_lower \in DOMAIN COLUMN_ALIASES
        target_column == IF aliased THEN COLUMN_ALIASES[user_field_lower]
                         ELSE ""
        alias_fuzzy == IF aliased /\ target_column \notin cols
                       THEN _fuzzy_match(target_column, available_columns)
                       ELSE None
        direct == { i \in DOMAIN available_columns :
                      Lower(available_columns[i]) = user_field_lower }
        fuzzy_result == _fuzzy_match(user_field, available_columns)
    IN  IF aliased /\ target_column \in cols
        THEN Resolved(target_column, "")
        ELSE IF alias_fuzzy # None
        THEN Resolved(alias_fuzzy[1],
                      "Mapped '" \o user_field \o "' to '" \o alias_fuzzy[1]
                      \o "' (via alias)")
        ELSE IF direct # {}
        THEN Resolved(available_columns[Min(direct)], "")
        ELSE IF fuzzy_result # None
        THEN Resolved(fuzzy_result[1],
                      "Interpreted '" \o user_field \o "' as '"
                      \o fuzzy_result[1] \o "' (fuzzy match)")
        ELSE Unresolved("Unknown field '" \o user_field \o "'.")

\* ------------------------------------------------------------------------
\* SEOAgent: sheets and parsed queries of the model
\* ------------------------------------------------------------------------

\* A table (DataFrame): its column list and its rows, each row a mapping
\* column -> cell text.
Table(columns, rows) == [columns |-> columns, rows |-> rows]

TableMain ==
    Table(<< "Address", "Title 1", "Status Code" >>,
          << ("Address" :> "/a") @@ ("Title 1" :> "Home")
                @@ ("Status Code" :> "200"),
             ("Address" :> "/b") @@ ("Title 1" :> "")
                @@ ("Status Code" :> "404"),
             ("Address" :> "/c") @@ ("Title 1" :> "About")
                @@ ("Status Code" :> "200") >>)

\* A sheet whose address column is misspelt.
TableDrift ==
    Table(<< "Adress", "Status Code" >>,
          << ("Adress" :> "/a") @@ ("Status Code" :> "404"),
             ("Adress" :> "/b") @@ ("Status Code" :> "301") >>)

\* A sheet that is no crawl export: it has no address column.
TableOther ==
    Table(<< "URL", "Title" >>,
          << ("URL" :> "/a") @@ ("Title" :> "Home") >>)

TableEmpty == Table(<< >>, << >>)

\* Outcomes of the Sheets API fetch in SheetsClient.fetch_sheet.
FetchOutcomes ==
    { [kind |-> "ok", df |-> t] :
        t \in { TableMain, TableDrift, TableOther, TableEmpty } }
    \cup { [kind |-> "SheetsNotFoundError", df |-> TableEmpty],
           [kind |-> "SheetsAPIError", df |-> TableEmpty] }

Filter(field, operator, value) ==
    [field |-> field, operator |-> operator, value |-> value]

\* Parsed SEO query. sort_by.isdict is FALSE when the model returned
\* something other than an object for sort_by.
SeoParsed(filters, select_columns, limit, sortIsDict) ==
    [filters |-> filters, select_columns |-> select_columns,
     group_by |-> None, aggregation |-> None, limit |-> limit,
     sort_by |-> [isdict |-> sortIsDict, field |-> None,
                  direction |-> "asc"]]

\* Defaults returned when the extraction call raises, which are also what
\* setdefault leaves for a result that is not an object.
SeoParseDefaults == SeoParsed(<< >>, << "Address" >>, 100, TRUE)

\* Outcomes of the SEO extraction call every query text may get: a parse
\* with a filter and two selected columns, an exception of the call.
CommonSeoParseOutcomes ==
    { [kind |-> "dict",
       result |-> SeoParsed(<< Filter("status code", "equals", "404") >>,
                            << "url", "title" >>, 100, TRUE)],
      [kind |-> "raise", result |-> SeoParseDefaults] }

\* Outcomes considered for the request texts of Queries only: a filter and
\* a selected column no sheet has, a filter no row passes, a sort_by that
\* is no object, a value that is no object.
RequestSeoParseOutcomes ==
    { [kind |-> "dict",
       result |-> SeoParsed(<< Filter("meta description", "is_empty", "") >>,
                            << "url", "word count" >>, 100, TRUE)],
      [kind |-> "dict",
       result |-> SeoParsed(<< Filter("status code", "equals", "500") >>,
                            << "url" >>, 100, TRUE)],
      [kind |-> "dict",
       result |-> SeoParsed(<< >>, << "url" >>, 1, FALSE)],
      [kind |-> "nondict", result |-> SeoParseDefaults] }

\* Outcomes of the SEO extraction call for the query q.
SeoParseOutcomes(q) ==
    IF q # None /\ q[1] \in Queries
    THEN CommonSeoParseOutcomes \cup RequestSeoParseOutcomes
    ELSE CommonSeoParseOutcomes

\* SEOAgent._parse_query never raises.
Seo_parse_query(out) ==
    IF out.kind = "dict" THEN out.result ELSE SeoParseDefaults

\* ------------------------------------------------------------------------
\* SEOAgent: stage 3, _resolve_columns
\* ------------------------------------------------------------------------

\* "Collect all field references from parsed query".
FieldsToResolve(parsed) ==
    { parsed.filters[i].field : i \in DOMAIN parsed.filters }
    \cup { c \in Range(parsed.select_columns) : c # "" }
    \cup (IF Truthy(parsed.group_by) THEN { parsed.group_by[1] } ELSE {})
    \cup (IF Truthy(parsed.sort_by.field) THEN { parsed.sort_by.field[1] }
          ELSE {})

\* The orders in which a set may be iterated.
Orderings(S) ==
    { f \in [1..Cardinality(S) -> S] :
        \A i, j \in 1..Cardinality(S) : i # j => f[i] # f[j] }

\* Elements of seq satisfying keep, in order.
RECURSIVE SelectIdx(_, _)
SelectIdx(n, keep) ==
    IF n = 0 THEN << >>
    ELSE IF n \in keep THEN Append(SelectIdx(n - 1, keep), n)
    ELSE SelectIdx(n - 1, keep)

\* Column lists of the sheets and field references of the parsed queries of
\* this model.
KnownColumns == { out.df.columns : out \in FetchOutcomes }

KnownFields ==
    UNION { FieldsToResolve(Seo_parse_query(out)) :
              out \in CommonSeoParseOutcomes \cup RequestSeoParseOutcomes }

\* _resolve_single_column on every field reference and column list of the
\* model, evaluated once.
Resolution ==
    [cols \in KnownColumns |->
        [f \in KnownFields |-> _resolve_single_column(f, cols)]]

\* The per-field results of _resolve_columns.
ResolveEach(fieldSet, available_columns) ==
    [f \in fieldSet |-> Resolution[available_columns][f]]

\* _resolve_columns with the fields iterated in the order `fields`; r holds
\* the result of _resolve_single_column for each field.
_resolve_columns(fields, r) ==
    LET okSet == { f \in Range(fields) : r[f].status = "resolved" }
        errIdx == SelectIdx(Len(fields),
                     { i \in DOMAIN fields : r[fields[i]].status = "error" })
        warnIdx == SelectIdx(Len(fields),
                      { i \in DOMAIN fields :
                          /\ r[fields[i]].status = "resolved"
                          /\ r[fields[i]].warning # "" })
    IN  [resolved |-> [f \in okSet |-> r[f].column],
         errors |-> [k \in DOMAIN errIdx |-> r[fields[errIdx[k]]].error],
         warnings |-> [k \in DOMAIN warnIdx |->
                         r[fields[warnIdx[k]]].warning]]

RECURSIVE JoinLines(_)
\* "\n".join of the bulleted errors.
JoinLines(errors) ==
    IF errors = << >> THEN ""
    ELSE IF Len(errors) = 1 THEN "* " \o errors[1]
    ELSE "* " \o errors[1] \o "\n" \o JoinLines(Tail(errors))

\* A message that reports the first failing field only.
FormatResolutionErrorsMutant(errors) == errors[1]

_format_resolution_errors(errors) ==
    IF Len(errors) = 1 THEN errors[1]
    ELSE "Could not resolve the following fields:\n" \o JoinLines(errors)

\* ------------------------------------------------------------------------
\* SEOAgent: stage 4, _process_data
\* ------------------------------------------------------------------------

\* Whether a cell passes _apply_filter's test. Cells are text; the
\* comparison is on lower-cased text. The parsed queries of this model use
\* the text operators only; any other operator keeps every row, as an
\* unknown operator does.
CellPasses(cell, operator, value) ==
    CASE operator = "equals" -> Lower(cell) = Lower(value)
      [] operator = "not_equals" -> Lower(cell) # Lower(value)
      [] operator = "contains" -> Contains(Lower(value), Lower(cell))
      [] operator = "not_contains" -> ~Contains(Lower(value), Lower(cell))
      [] operator = "is_empty" -> Strip(cell) = ""
      [] operator = "is_not_empty" -> Strip(cell) # ""
      [] OTHER -> TRUE

\* _apply_filter: the rows whose cell in `column` passes, in order.
_apply_filter(rows, column, operator, value) ==
    LET keep == { i \in DOMAIN rows :
                    CellPasses(rows[i][column], operator, value) }
        idx == SelectIdx(Len(rows), keep)
    IN  [k \in DOMAIN idx |-> rows[idx[k]]]

RECURSIVE ApplyFiltersMutant(_, _, _, _, _)
\* A filter loop that ends at the first filter it cannot use.
ApplyFiltersMutant(rows, columns, filters, resolved, applied) ==
    IF filters = << >> THEN [rows |-> rows, applied |-> applied]
    ELSE LET f == Head(filters)
             usable == /\ f.field # ""
                       /\ f.field \in DOMAIN resolved
                       /\ resolved[f.field] \in Range(columns)
         IN  IF usable
             THEN ApplyFiltersMutant(_apply_filter(rows, resolved[f.field],
                                                   f.operator, f.value),
                                     columns, Tail(filters), resolved,
                                     applied + 1)
             ELSE [rows |-> rows, applied |-> applied]

RECURSIVE ApplyFilters(_, _, _, _, _)
\* The filter loop of _process_data from filter n on: a filter whose field
\* is not resolved, or whose column is not in the table, is skipped.
ApplyFilters(rows, columns, filters, resolved, applied) ==
    IF filters = << >> THEN [rows |-> rows, applied |-> applied]
    ELSE LET f == Head(filters)
             usable == /\ f.field # ""
                       /\ f.field \in DOMAIN resolved
                       /\ resolved[f.field] \in Range(columns)
         IN  IF usable
             THEN ApplyFilters(_apply_filter(rows, resolved[f.field],
                                             f.operator, f.value),
                               columns, Tail(filters), resolved, applied + 1)
             ELSE ApplyFilters(rows, columns, Tail(filters), resolved,
                               applied)

\* The number a cell of digits stands for. The columns grouped and sorted
\* in this model hold digit texts of one length, which the text order and
\* the numeric order arrange alike.
DigitValue(c) == CHOOSE n \in 0..9 : ToString(n) = c

RECURSIVE CellNumber(_)
CellNumber(s) ==
    IF s = "" THEN 0
    ELSE 10 * CellNumber(SubSeq(s, 1, Len(s) - 1))
         + DigitValue(SubSeq(s, Len(s), Len(s)))

\* DataFrame.sort_values with the default sort, which is not stable: every
\* arrangement of the rows whose keys are in order. keys[i] is the key of
\* rows[i].
sort_values(rows, keys, ascending) ==
    LET inOrder(q) ==
            \A i \in 1..(Len(rows) - 1) :
                IF ascending THEN keys[q[i]] <= keys[q[i + 1]]
                ELSE keys[q[i]] >= keys[q[i + 1]]
    IN  { [i \in DOMAIN rows |-> rows[q[i]]] :
            q \in { o \in Orderings(DOMAIN rows) : inOrder(o) } }

\* round(count / len(df) * 100, 2), in hundredths of a percent; a value
\* half way between two hundredths goes to the even one.
Percentage(count, total) ==
    LET q == (count * 10000) \div total
        r == (count * 10000) % total
    IN  IF 2 * r > total THEN q + 1
        ELSE IF 2 * r = total THEN q + (q % 2)
        ELSE q

\* _apply_grouping: one row per value of the group column, the values in
\* ascending order (groupby). 'count' adds the count and sorts by it,
\* descending; 'percentage' adds count and percentage and sorts by the
\* percentage, descending. 'sum' and 'average' aggregate the numeric
\* columns; a fetched sheet has none (fetch_sheet builds the frame from the
\* texts of get_all_values), so they return the counts in the order of
\* the values, as every other aggregation does.
_apply_grouping(rows, group_column, aggregation) ==
    LET values == { rows[i][group_column] : i \in DOMAIN rows }
        byValue == CHOOSE o \in Orderings(values) :
                      \A i \in 1..(Cardinality(values) - 1) :
                          CellNumber(o[i]) < CellNumber(o[i + 1])
        size(v) == Cardinality({ i \in DOMAIN rows :
                                   rows[i][group_column] = v })
        result == [k \in DOMAIN byValue |->
                      (group_column :> byValue[k])
                         @@ ("count" :> size(byValue[k]))]
        withPct == [k \in DOMAIN result |->
                      result[k] @@ ("percentage" :>
                          Percentage(result[k]["count"], Len(rows)))]
    IN  IF aggregation = Some("count")
        THEN { Table(<< group_column, "count" >>, r) :
                 r \in sort_values(result,
                         [k \in DOMAIN result |-> result[k]["count"]],
                         FALSE) }
        ELSE IF aggregation = Some("percentage")
        THEN { Table(<< group_column, "count", "percentage" >>, r) :
                 r \in sort_values(withPct,
                         [k \in DOMAIN withPct |-> withPct[k]["percentage"]],
                         FALSE) }
        ELSE { Table(<< group_column, "count" >>, result) }

\* _process_data: filters, grouping, sorting, limit, column selection. The
\* value is the set of results the call may return: one but for rows that
\* tie in a sort.
_process_data(df, parsed, resolved) ==
    LET filtered == ApplyFilters(df.rows, df.columns, parsed.filters,
                                 resolved, 0)
        grouping == /\ Truthy(parsed.group_by)
                    /\ parsed.group_by[1] \in DOMAIN resolved
                    /\ resolved[parsed.group_by[1]] \in Range(df.columns)
        groupedTables ==
            IF grouping
            THEN _apply_grouping(filtered.rows, resolved[parsed.group_by[1]],
                                 parsed.aggregation)
            ELSE { Table(df.columns, filtered.rows) }
        sorting(t) == /\ parsed.sort_by.isdict
                      /\ Truthy(parsed.sort_by.field)
                      /\ parsed.sort_by.field[1] \in DOMAIN resolved
                      /\ resolved[parsed.sort_by.field[1]]
                            \in Range(t.columns)
        sortedTables(t) ==
            IF sorting(t)
            THEN LET sort_column == resolved[parsed.sort_by.field[1]]
                     keys == [i \in DOMAIN t.rows |->
                                CellNumber(t.rows[i][sort_column])]
                 IN  { Table(t.columns, r) :
                         r \in sort_values(t.rows, keys,
                                  parsed.sort_by.direction = "asc") }
            ELSE { t }
        output(t) ==
            LET limited == IF parsed.limit # 0 /\ Len(t.rows) > parsed.limit
                           THEN SubSeq(t.rows, 1, parsed.limit)
                           ELSE t.rows
                selIdx == SelectIdx(Len(parsed.select_columns),
                             { i \in DOMAIN parsed.select_columns :
                                 /\ parsed.select_columns[i] # ""
                                 /\ parsed.select_columns[i]
                                       \in DOMAIN resolved
                                 /\ resolved[parsed.select_columns[i]]
                                       \in Range(t.columns) })
                actual_select == [k \in DOMAIN selIdx |->
                                    resolved[parsed.select_columns[selIdx[k]]]]
                addIdx == SelectIdx(Len(t.columns),
                             { i \in DOMAIN t.columns :
                                 /\ t.columns[i] \notin Range(actual_select)
                                 /\ t.columns[i] \in
                                       { "count", "sum", "average",
                                         "percentage" } })
                outColumns ==
                    IF actual_select = << >> THEN t.columns
                    ELSE actual_select
                         \o [k \in DOMAIN addIdx |-> t.columns[addIdx[k]]]
                outRows == [i \in DOMAIN limited |->
                              [c \in Range(outColumns) |-> limited[i][c]]]
            IN  [result_df |-> Table(outColumns, outRows),
                 info |-> [original_rows |-> Len(df.rows),
                           filters_applied |-> filtered.applied,
                           final_rows |-> Len(outRows)]]
    IN  { output(s) : s \in UNION { sortedTables(t) : t \in groupedTables } }

\* DataFrame.empty: no rows or no columns.
IsEmptyTable(df) == df.rows = << >> \/ df.columns = << >>

\* ------------------------------------------------------------------------
\* ResponseFormatter
\* ------------------------------------------------------------------------

HYBRID_THRESHOLD_ROWS == 10

HYBRID_THRESHOLD_COMPLEXITY == 5

\* The empty dict.
EmptyDict == [empty |-> TRUE]

\* k.startswith('source_')
IsSourceKey(k) == Len(k) >= 7 /\ SubSeq(k, 1, 7) = "source_"

RECURSIVE count_nesting(_, _)
\* count_nesting of a payload: the empty dict, a table payload {rows,
\* columns, ...} (a list of row mappings is three levels deep, a list of
\* names two, a scalar one), or a dict whose values are payloads. The
\* recursion stops at the first level above HYBRID_THRESHOLD_COMPLEXITY.
count_nesting(obj, level) ==
    IF level > HYBRID_THRESHOLD_COMPLEXITY THEN level
    ELSE IF obj = EmptyDict THEN level
    ELSE IF "rows" \in DOMAIN obj
    THEN LET rowsDepth == IF obj.rows = << >> THEN 1
                          ELSE IF \A i \in DOMAIN obj.rows :
                                    DOMAIN obj.rows[i] = {} THEN 2
                          ELSE 3
             colsDepth == IF "columns" \notin DOMAIN obj THEN 1
                          ELSE IF obj.columns = << >> THEN 1 ELSE 2
         IN  Min({ HYBRID_THRESHOLD_COMPLEXITY + 1,
                   level + Max({ rowsDepth, colsDepth }) })
    ELSE Max({ count_nesting(obj[k], level + 1) : k \in DOMAIN obj })

\* _is_complex_structure
_is_complex_structure(data) == count_nesting(data, 0) > 3

\* A hybrid test whose row threshold is inclusive.
FormatterHybridMutant(data) ==
    IF data = None \/ data = Some(EmptyDict) THEN FALSE
    ELSE \/ /\ "rows" \in DOMAIN data[1]
            /\ Len(data[1].rows) >= HYBRID_THRESHOLD_ROWS
         \/ Cardinality({ k \in DOMAIN data[1] : IsSourceKey(k) }) >= 2
         \/ _is_complex_structure(data[1])

\* ResponseFormatter._should_use_hybrid of an Optional payload.
Formatter_should_use_hybrid(data) ==
    IF data = None \/ data = Some(EmptyDict) THEN FALSE
    ELSE \/ /\ "rows" \in DOMAIN data[1]
            /\ Len(data[1].rows) > HYBRID_THRESHOLD_ROWS
         \/ Cardinality({ k \in DOMAIN data[1] : IsSourceKey(k) }) >= 2
         \/ _is_complex_structure(data[1])

\* A formatter that applies the size rules to a JSON request as well.
FormatResponseMutant(answer, data, agent_used, json) ==
    IF Formatter_should_use_hybrid(data)
    THEN Resp(IF json THEN "Results returned in JSON format" ELSE answer,
              data, agent_used)
    ELSE Resp(IF json THEN "Results returned in JSON format" ELSE answer,
              None, agent_used)

\* ResponseFormatter.format_response.
format_response(answer, data, agent_used, json) ==
    IF json
    THEN Resp("Results returned in JSON format",
              IF data = None THEN Some(EmptyDict) ELSE data, agent_used)
    ELSE IF Formatter_should_use_hybrid(data)
    THEN Resp(answer, data, agent_used)
    ELSE Resp(answer, None, agent_used)

\* ------------------------------------------------------------------------
\* SEOAgent: stage 5, _synthesize_response
\* ------------------------------------------------------------------------

\* _generate_nl_summary.
_generate_nl_summary(result_df, info, gen) ==
    IF IsEmptyTable(result_df)
    THEN "No results found for your query. Searched through "
         \o ToString(info.original_rows) \o " rows with "
         \o ToString(info.filters_applied) \o " filter(s) applied."
    ELSE IF gen.kind = "ok" THEN Strip(gen.text)
    ELSE "Found " \o ToString(Len(result_df.rows))
         \o " results matching your query (filtered from "
         \o ToString(info.original_rows) \o " total rows)."

\* SEOAgent._should_use_hybrid.
Seo_should_use_hybrid(result_df) ==
    /\ ~IsEmptyTable(result_df)
    /\ 10 <= Len(result_df.rows)
    /\ Len(result_df.rows) <= 100

SeoSynthesize(result_df, info, json, gen) ==
    LET data_dict ==
            IF IsEmptyTable(result_df)
            THEN [rows |-> << >>, columns |-> << >>]
            ELSE [rows |-> result_df.rows, columns |-> result_df.columns,
                  total_rows |-> Len(result_df.rows)]
    IN  IF json
        THEN format_response("Results returned in JSON format",
                             Some(data_dict), "seo", TRUE)
        ELSE LET nl_answer == _generate_nl_summary(result_df, info, gen)
             IN  IF Seo_should_use_hybrid(result_df)
                 THEN format_response(nl_answer, Some(data_dict), "seo", FALSE)
                 ELSE format_response(nl_answer, None, "seo", FALSE)

\* ------------------------------------------------------------------------
\* SEOAgent.process
\* ------------------------------------------------------------------------

NoSeoInfo == [original_rows |-> 0, filters_applied |-> 0, final_rows |-> 0]

\* Locals of process() at its entry; extraction records how the extraction
\* call of _parse_query ended.
\* A route that scans the query it passes on for the JSON keywords.
SeoRunMutant(q, json) ==
    [agent |-> "seo", stage |-> "begin", query |-> q,
     json_requested |-> (q # None /\ _detect_json_request(q[1])),
     df |-> TableEmpty,
     extraction |-> "", parsed |-> SeoParseDefaults, resolved |-> << >>,
     warnings |-> << >>, result_df |-> TableEmpty, info |-> NoSeoInfo]

\* The arguments and locals of a call of SEOAgent.process.
SeoRun(q, json) ==
    [agent |-> "seo", stage |-> "begin", query |-> q,
     json_requested |-> json, df |-> TableEmpty,
     extraction |-> "", parsed |-> SeoParseDefaults, resolved |-> << >>,
     warnings |-> << >>, result_df |-> TableEmpty, info |-> NoSeoInfo]

\* The except clauses of process().
SeoExcept(type, msg) ==
    IF type \in {"SheetsNotFoundError", "SchemaResolutionError"}
    THEN Returned(Resp(msg, None, "seo"))
    ELSE IF type = "SheetsAPIError"
    THEN Returned(Resp("Error accessing SEO data: " \o msg, None, "seo"))
    ELSE Returned(Resp("An error occurred processing your SEO query: "
                       \o msg, None, "seo"))

SheetRequiredMsg ==
    "SEO analysis requires a Google Sheet ID. "
    \o "Please configure SHEET_ID in your environment variables. "
    \o "The Sheet should contain Screaming Frog export data."

SheetEmptyMsg ==
    "The SEO data sheet is empty. Please ensure the Google Sheet contains "
    \o "Screaming Frog export data."

\* A sheet id check that raises instead of returning the guidance.
MissingSheetMutant == Raised

\* "Graceful handling if SHEET_ID is not configured".
MissingSheet == Returned(Resp(SheetRequiredMsg, None, "seo"))

\* process() up to the Parse stage: sheet id check, fetch_sheet (from the
\* session cache when the id is cached, else from the API, which fills the
\* cache), schema detection and the empty-sheet check. The Fetch stage is
\* traced when fetch_sheet is called.
S_Begin ==
    /\ running # 0 /\ run.agent = "seo" /\ run.stage = "begin"
    /\ IF ~Truthy(default_sheet_id)
       THEN /\ Deliver(MissingSheet)
            /\ UNCHANGED << seoVars, trace >>
       ELSE /\ trace' = Append(trace, "Fetch")
            /\ LET id == default_sheet_id[1]
               IN  \E out \in FetchOutcomes :
                     /\ id \in DOMAIN _cache
                           => out = [kind |-> "ok", df |-> _cache[id]]
                     /\ IF out.kind # "ok"
                        THEN /\ Deliver(SeoExcept(out.kind,
                                   IF out.kind = "SheetsNotFoundError"
                                   THEN "Spreadsheet not found: " \o id
                                   ELSE "Google Sheets API error"))
                             /\ UNCHANGED seoVars
                        ELSE /\ _cache' = (id :> out.df) @@ _cache
                             /\ _available_columns' = out.df.columns
                             /\ IF IsEmptyTable(out.df)
                                THEN Deliver(Returned(Resp(SheetEmptyMsg,
                                                           None, "seo")))
                                ELSE /\ run' = [run EXCEPT
                                                  !.stage = "parse",
                                                  !.df = out.df]
                                     /\ UNCHANGED << slots, running, order,
                                                     outcome >>
    /\ UNCHANGED << inputVars, orchVars, agentVars, runReportCalls,
                    generationCalls, reported >>

\* Stage 2: _parse_query.
S_Parse ==
    /\ running # 0 /\ run.agent = "seo" /\ run.stage = "parse"
    /\ trace' = Append(trace, "Parse")
    /\ \E out \in SeoParseOutcomes(run.query) :
          run' = [run EXCEPT !.stage = "resolve", !.extraction = out.kind,
                             !.parsed = Seo_parse_query(out)]
    /\ UNCHANGED << inputVars, orchVars, agentVars, seoVars, slots, running,
                    order, outcome, runReportCalls, generationCalls, reported >>

\* Stage 3: _resolve_columns; a sort_by that is not an object raises
\* AttributeError; any resolution error ends the request.
S_Resolve ==
    /\ running # 0 /\ run.agent = "seo" /\ run.stage = "resolve"
    /\ trace' = Append(trace, "ColumnResolve")
    /\ IF ~run.parsed.sort_by.isdict
       THEN Deliver(SeoExcept("AttributeError",
                              "'str' object has no attribute 'get'"))
       ELSE LET each == ResolveEach(FieldsToResolve(run.parsed),
                                    _available_columns)
            IN  \E fields \in Orderings(FieldsToResolve(run.parsed)) :
              LET res == _resolve_columns(fields, each)
              IN  IF res.errors # << >>
                  THEN Deliver(Returned(Resp(
                           _format_resolution_errors(res.errors), None,
                           "seo")))
                  ELSE /\ run' = [run EXCEPT !.stage = "transform",
                                             !.resolved = res.resolved,
                                             !.warnings = res.warnings]
                       /\ UNCHANGED << slots, running, order, outcome >>
    /\ UNCHANGED << inputVars, orchVars, agentVars, seoVars, runReportCalls,
                    generationCalls,
                    reported >>

\* Stage 4: _process_data.
S_Transform ==
    /\ running # 0 /\ run.agent = "seo" /\ run.stage = "transform"
    /\ trace' = Append(trace, "Transform")
    /\ \E p \in _process_data(run.df, run.parsed, run.resolved) :
          run' = [run EXCEPT !.stage = "synthesize",
                             !.result_df = p.result_df, !.info = p.info]
    /\ UNCHANGED << inputVars, orchVars, agentVars, seoVars, slots, running,
                    order, outcome, runReportCalls, generationCalls, reported >>

\* llm_client.chat is called by _generate_nl_summary for a non-JSON answer
\* about a non-empty result only.
SeoNeedsGeneration(json, result_df) == ~json /\ ~IsEmptyTable(result_df)

\* Stage 5: _synthesize_response.
S_Synthesize ==
    /\ running # 0 /\ run.agent = "seo" /\ run.stage = "synthesize"
    /\ trace' = Append(trace, "Synthesize")
    /\ \E gen \in GenOutcomes :
          /\ SeoNeedsGeneration(run.json_requested, run.result_df)
                \/ gen.kind = "ok"
          /\ Deliver(Returned(SeoSynthesize(run.result_df, run.info,
                                            run.json_requested, gen)))
    /\ generationCalls' =
          IF SeoNeedsGeneration(run.json_requested, run.result_df)
          THEN generationCalls + 1 ELSE generationCalls
    /\ UNCHANGED << inputVars, orchVars, agentVars, seoVars, runReportCalls,
                    reported >>

\* ------------------------------------------------------------------------
\* Orchestrator
\* ------------------------------------------------------------------------

\* Outcomes of the intent classification call.
IntentOutcomes ==
    { [kind |-> "ok", text |-> t] :
        t \in { "analytics", "seo", " Multi-Agent\n", "both", "SEO." } }
    \cup { [kind |-> "raise", text |-> ""] }

\* A label taken from the classifier without validation.
NormalizeIntentMutant(text) == Lower(Strip(text))

\* The label validation of _detect_intent.
NormalizeIntent(text) ==
    LET label == Lower(Strip(text))
    IN  IF label \in { INTENT_ANALYTICS, INTENT_SEO, INTENT_MULTI }
        THEN label ELSE INTENT_ANALYTICS

\* One element of the list returned by the decomposition capability:
\* an object with agent and sub_query, or a value that is not an object.
Task(agent, sub_query) ==
    [isdict |-> TRUE, agent |-> agent, sub_query |-> sub_query]

NotATask == [isdict |-> FALSE, agent |-> "", sub_query |-> None]

TaskValues ==
    { Task("analytics", Some("traffic by page")),
      Task("analytics", None),
      Task("seo", Some("pages with 404")),
      Task("content", Some("rewrite titles")),
      NotATask }

\* Lists of at most n elements of S.
SeqsUpTo(S, n) == UNION { [1..k -> S] : k \in 0..n }

\* Outcomes of the decomposition call llm_client.chat(json_mode=True): a
\* parsed JSON list, another parsed JSON value, or an exception of the call
\* (the ValueError of _parse_json_response for output that is no JSON, or an
\* API error that outlasted the retries).
DecomposeOutcomes ==
    { [kind |-> "list", tasks |-> t] : t \in SeqsUpTo(TaskValues, MaxTasks) }
    \cup { [kind |-> "nonlist", tasks |-> << >>],
           [kind |-> "raise", tasks |-> << >>] }

\* A fallback that lists the SEO task first.
FallbackTasksMutant(q) ==
    << Task("seo", Some(q)), Task("analytics", Some(q)) >>

\* The task list _decompose_query returns for a value that is no list.
FallbackTasks(q) ==
    << Task("analytics", Some(q)), Task("seo", Some(q)) >>

\* Step 1 of process_query.
DetectJson ==
    /\ pc = "start"
    /\ json_requested' = _detect_json_request(query)
    /\ pc' = "intent"
    /\ UNCHANGED << inputVars, classification, decomposition,
                    intent, tasks, slots, running, run, results,
                    response, raised, agentVars, seoVars, trace,
                    runReportCalls,
                    generationCalls, reported, order, outcome, all_answers,
                    synthCalls >>

\* Step 2 of process_query: _detect_intent; an exception of the
\* classification call leaves process_query.
DetectIntent ==
    /\ pc = "intent"
    /\ \E out \in IntentOutcomes :
          IF out.kind = "raise"
          THEN /\ raised' = TRUE
               /\ pc' = "done"
               /\ UNCHANGED << classification, intent >>
          ELSE /\ classification' = Some(out.text)
               /\ intent' = NormalizeIntent(out.text)
               /\ pc' = "route"
               /\ UNCHANGED raised
    /\ UNCHANGED << inputVars, json_requested, decomposition, tasks, slots,
                    running, run,
                    results, response, agentVars, seoVars, trace,
                    runReportCalls,
                    generationCalls, reported, order, outcome, all_answers,
                    synthCalls >>

\* _route_to_analytics up to the call of the agent's process().
RouteToAnalytics ==
    /\ pc = "route" /\ intent = INTENT_ANALYTICS
    /\ pc' = "single"
    /\ slots' = << [PendingSlot EXCEPT !.status = "running"] >>
    /\ running' = 1
    /\ run' = AnalyticsRun(Some(query),
                           OrElse(property_id, default_property_id),
                           json_requested)
    /\ trace' = << >>
    /\ runReportCalls' = 0
    /\ generationCalls' = 0
    /\ UNCHANGED << inputVars, classification, decomposition,
                    json_requested, intent, tasks, results,
                    response, raised, agentVars, seoVars, reported, order,
                    outcome, all_answers, synthCalls >>

\* _route_to_seo up to the call of the agent's process().
RouteToSeo ==
    /\ pc = "route" /\ intent = INTENT_SEO
    /\ pc' = "single"
    /\ slots' = << [PendingSlot EXCEPT !.status = "running"] >>
    /\ running' = 1
    /\ run' = SeoRun(Some(query), json_requested)
    /\ trace' = << >>
    /\ runReportCalls' = 0
    /\ generationCalls' = 0
    /\ UNCHANGED << inputVars, classification, decomposition,
                    json_requested, intent, tasks, results,
                    response, raised, agentVars, seoVars, reported, order,
                    outcome, all_answers, synthCalls >>

\* process_query returns the routed result, or the exception leaves it.
ReturnSingle ==
    /\ pc = "single" /\ slots[1].status = "done"
    /\ pc' = "done"
    /\ IF slots[1].kind = "exc"
       THEN raised' = TRUE /\ UNCHANGED response
       ELSE response' = slots[1].res /\ UNCHANGED raised
    /\ UNCHANGED << inputVars, classification, decomposition,
                    json_requested, intent, tasks, slots, running,
                    run, results, agentVars, seoVars, trace, runReportCalls,
                    generationCalls,
                    reported, order, outcome, all_answers, synthCalls >>

\* _decompose_query and the creation of one coroutine per task by
\* asyncio.gather. A result that is not a list becomes the two-task
\* fallback on the original query.
Decompose ==
    /\ pc = "route" /\ intent = INTENT_MULTI
    /\ \E out \in DecomposeOutcomes :
          IF out.kind = "raise"
          THEN /\ raised' = TRUE
               /\ pc' = "done"
               /\ UNCHANGED << decomposition, tasks, slots >>
          ELSE LET t == IF out.kind = "nonlist"
                        THEN FallbackTasks(query)
                        ELSE out.tasks
               IN  /\ decomposition' = out.kind
                   /\ tasks' = t
                   /\ slots' = [i \in DOMAIN t |-> PendingSlot]
                   /\ pc' = "gather"
                   /\ UNCHANGED raised
    /\ UNCHANGED << inputVars, classification,
                    json_requested, intent, running, run, results,
                    response, agentVars, seoVars, trace, runReportCalls,
                    generationCalls,
                    reported, order, outcome, all_answers, synthCalls >>

\* The event loop runs one pending coroutine execute_task(tasks[i]). No
\* call of a pipeline suspends (the collaborators are called synchronously),
\* so a coroutine runs to its end before another one starts; which pending
\* coroutine runs next is left open.
StartTask(i) ==
    /\ pc = "gather" /\ running = 0
    /\ i \in DOMAIN slots /\ slots[i].status = "pending"
    /\ trace' = << >>
    /\ runReportCalls' = 0
    /\ generationCalls' = 0
    /\ LET task == tasks[i]
       IN  IF ~task.isdict
           THEN \* task.get raises AttributeError
                /\ slots' = [slots EXCEPT ![i] = [status |-> "done",
                                kind |-> "exc", res |-> NoResp]]
                /\ order' = Append(order, i)
                /\ UNCHANGED << running, run >>
           ELSE IF task.agent = "analytics"
           THEN /\ slots' = [slots EXCEPT ![i].status = "running"]
                /\ running' = i
                /\ run' = AnalyticsRun(task.sub_query,
                              OrElse(property_id, default_property_id),
                              json_requested)
                /\ UNCHANGED order
           ELSE IF task.agent = "seo"
           THEN /\ slots' = [slots EXCEPT ![i].status = "running"]
                /\ running' = i
                /\ run' = SeoRun(task.sub_query, json_requested)
                /\ UNCHANGED order
           ELSE \* unknown agent type: execute_task returns None
                /\ slots' = [slots EXCEPT ![i] = [status |-> "done",
                                kind |-> "none", res |-> NoResp]]
                /\ order' = Append(order, i)
                /\ UNCHANGED << running, run >>
    /\ UNCHANGED << inputVars, orchVars, agentVars, seoVars, reported,
                    outcome >>

\* A gather that returns at the first completed coroutine.
GatherDoneMutant(s) == \E i \in DOMAIN s : s[i].status = "done"

\* asyncio.gather(..., return_exceptions=True) has every result.
GatherDone(s) == \A i \in DOMAIN s : s[i].status = "done"

\* A filter that keeps every gathered value.
IsValidMutant(slot) == TRUE

\* "r is not None and not isinstance(r, Exception)".
IsValid(slot) == slot.kind = "result"

\* Results collected in the order the coroutines completed.
ValidResultsMutant(s) ==
    LET done == SelectSeq(order, LAMBDA i : IsValid(s[i]))
    IN  [k \in DOMAIN done |-> s[done[k]].res]

\* "Filter out exceptions": the results that are neither None nor an
\* exception, in the order of the gathered list.
ValidResults(s) ==
    LET idx == SelectIdx(Len(s), { i \in DOMAIN s : IsValid(s[i]) })
    IN  [k \in DOMAIN idx |-> s[idx[k]].res]

\* _execute_tasks_parallel returns once gather has returned.
GatherReturn ==
    /\ pc = "gather" /\ running = 0
    /\ GatherDone(slots)
    /\ results' = ValidResults(slots)
    /\ pc' = "aggregate"
    /\ UNCHANGED << inputVars, classification, decomposition,
                    json_requested, intent, tasks, slots, running,
                    run, response, raised, agentVars, seoVars, trace,
                    runReportCalls,
                    generationCalls, reported, order, outcome, all_answers,
                    synthCalls >>

\* Truthiness of a result's data: None and the empty dict are falsy.
HasData(res) == res.data # None /\ res.data # Some(EmptyDict)

\* all_answers of _aggregate_results.
AllAnswers(rs) ==
    LET idx == SelectIdx(Len(rs), { i \in DOMAIN rs : rs[i].answer # "" })
    IN  [k \in DOMAIN idx |-> rs[idx[k]].answer]

\* all_data of _aggregate_results: key source_<i+1> for the result at index
\* i of the list, represented as a mapping from the number to the data.
AllData(rs) ==
    [n \in { i \in DOMAIN rs : HasData(rs[i]) } |-> rs[n].data[1]]

RECURSIVE SumRows(_, _)
SumRows(d, keys) ==
    IF keys = {} THEN 0
    ELSE LET k == CHOOSE x \in keys : TRUE
         IN  (IF "rows" \in DOMAIN d[k] THEN Len(d[k].rows) ELSE 0)
             + SumRows(d, keys \ {k})

\* A hybrid test that attaches the data from 5 rows on.
OrchHybridMutant(d) ==
    /\ DOMAIN d # {}
    /\ SumRows(d, DOMAIN d) >= 5

\* Orchestrator._should_use_hybrid: more than 5 rows over all sources.
Orch_should_use_hybrid(d) ==
    /\ DOMAIN d # {}
    /\ SumRows(d, DOMAIN d) > 5

UnableMsg == "Unable to process query with available agents."

\* An aggregation that never takes the empty-results branch.
NoResultsMutant(rs) == FALSE

\* "if not results".
NoResults(rs) == rs = << >>

CombinedJsonMsg ==
    "Combined results from analytics and SEO data returned in JSON format"

\* The response of _aggregate_results, labelled INTENT_MULTI by the route,
\* given the text unified_answer of the synthesis call.
_aggregate_results(rs, json, unified_answer) ==
    IF NoResults(rs) THEN Resp(UnableMsg, None, INTENT_MULTI)
    ELSE LET all_data == AllData(rs)
         IN  IF json
             THEN Resp(CombinedJsonMsg,
                       IF DOMAIN all_data # {} THEN Some(all_data)
                       ELSE None, INTENT_MULTI)
             ELSE Resp(unified_answer,
                       IF Orch_should_use_hybrid(all_data)
                       THEN Some(all_data) ELSE None, INTENT_MULTI)

\* _aggregate_results followed by aggregated['agent_used'] = INTENT_MULTI.
\* The synthesis call is made for a non-JSON request with a result; its
\* exception leaves process_query.
Aggregate ==
    /\ pc = "aggregate"
    /\ pc' = "done"
    /\ IF NoResults(results)
       THEN /\ response' = _aggregate_results(results, json_requested, "")
            /\ UNCHANGED << raised, all_answers, synthCalls >>
       ELSE /\ all_answers' = AllAnswers(results)
            /\ IF json_requested
               THEN /\ response' =
                         _aggregate_results(results, json_requested, "")
                    /\ UNCHANGED << raised, synthCalls >>
               ELSE /\ synthCalls' = synthCalls + 1
                    /\ \E gen \in GenOutcomes :
                         IF gen.kind = "raise"
                         THEN raised' = TRUE /\ UNCHANGED response
                         ELSE /\ response' =
                                   _aggregate_results(results,
                                       json_requested, gen.text)
                              /\ UNCHANGED raised
    /\ UNCHANGED << inputVars, classification, decomposition,
                    json_requested, intent, tasks, slots, running,
                    run, results, agentVars, seoVars, trace, runReportCalls,
                    generationCalls,
                    reported, order, outcome >>

\* ------------------------------------------------------------------------
\* Specification
\* ------------------------------------------------------------------------

Init ==
    /\ query \in Queries
    /\ property_id \in PropertyIds
    /\ default_property_id \in DefaultPropertyIds
    /\ default_sheet_id \in { None, Some("sheet1") }
    /\ pc = "start"
    /\ json_requested = FALSE
    /\ classification = None
    /\ decomposition = ""
    /\ intent = ""
    /\ tasks = << >>
    /\ slots = << >>
    /\ running = 0
    /\ run = NoRun
    /\ results = << >>
    /\ response = NoResp
    /\ raised = FALSE
    /\ _extended_enabled = FALSE
    /\ _extended_reason = ""
    /\ _available_columns = << >>
    /\ _cache = << >>
    /\ trace = << >>
    /\ runReportCalls = 0
    /\ generationCalls = 0
    /\ reported = NoReport
    /\ order = << >>
    /\ outcome = Returned(NoResp)
    /\ all_answers = << >>
    /\ synthCalls = 0

Next ==
    \/ DetectJson
    \/ DetectIntent
    \/ RouteToAnalytics
    \/ RouteToSeo
    \/ ReturnSingle
    \/ Decompose
    \/ \E i \in 1..(MaxTasks + 1) : StartTask(i)
    \/ GatherReturn
    \/ Aggregate
    \/ A_Begin
    \/ A_Parse
    \/ A_Validate
    \/ A_Execute
    \/ A_Synthesize
    \/ S_Begin
    \/ S_Parse
    \/ S_Resolve
    \/ S_Transform
    \/ S_Synthesize

Spec == Init /\ [][Next]_vars

\* Requests served by one agent: process_query without the multi-agent route.
NextSingle ==
    \/ DetectJson
    \/ DetectIntent
    \/ RouteToAnalytics
    \/ RouteToSeo
    \/ ReturnSingle
    \/ A_Begin
    \/ A_Parse
    \/ A_Validate
    \/ A_Execute
    \/ A_Synthesize
    \/ S_Begin
    \/ S_Parse
    \/ S_Resolve
    \/ S_Transform
    \/ S_Synthesize

SpecSingle == Init /\ [][NextSingle]_vars

\* Requests served by the multi-agent route, on a deployment with a sheet.
InitMulti ==
    /\ Init
    /\ query \in { "top pages by sessions", "page titles as JSON" }
    /\ property_id \in { None, Some("properties/42") }
    /\ default_property_id = None
    /\ default_sheet_id = Some("sheet1")

NextMulti ==
    \/ DetectJson
    \/ DetectIntent
    \/ Decompose
    \/ \E i \in 1..(MaxTasks + 1) : StartTask(i)
    \/ GatherReturn
    \/ Aggregate
    \/ A_Begin
    \/ A_Parse
    \/ A_Validate
    \/ A_Execute
    \/ A_Synthesize
    \/ S_Begin
    \/ S_Parse
    \/ S_Resolve
    \/ S_Transform
    \/ S_Synthesize

SpecMulti == InitMulti /\ [][NextMulti]_vars

\* ------------------------------------------------------------------------
\* Calls of single functions
\* ------------------------------------------------------------------------

\* A transformed table of r rows.
ResultTable(r) ==
    Table(IF r = 0 THEN << >> ELSE << "Address" >>,
          [i \in 1..r |-> ("Address" :> "/p" \o ToString(i))])

\* The payload _synthesize_response builds for a table of r rows.
TablePayload(r) ==
    [rows |-> ResultTable(r).rows, columns |-> << "Address" >>,
     total_rows |-> r]

\* A call of one function: its name, its arguments, and its result once the
\* call has returned.
Call(op, args) ==
    [agent |-> "call", stage |-> "input", op |-> op, args |-> args,
     result |-> << >>]

\* Calls of _validate_field: catalog names, the same names in another case,
\* and names of no catalog, against the allowlist of either tier.
ValidateCalls ==
    LET FieldTerms ==
         { "sessions", "Sessions", "SESSIONS", "totalRevenue", "totalrevenue",
           "pagePath", "pagepath", "itemName", "ItemName", "saless", "users" }
    IN  { Call("_validate_field",
               [field |-> f, enabled |-> e, field_type |-> t]) :
            f \in FieldTerms, e \in BOOLEAN,
            t \in { "Metric", "Dimension" } }

\* Calls of _resolve_single_column: user terms against the column lists of
\* a fetched sheet.
ResolveCalls ==
    LET ColumnTerms ==
         { "Address", "address", "ADDRESS", "url", "URL", "title", "Title",
           "TITLE", "Title 1", "Status Code", "status code", "status", "adress",
           "word count", "Indexability" }
        ColumnLists ==
         { TableMain.columns, TableDrift.columns,
           << "Title", "URL", "Address" >>,
           << "URL", "Status", "Indexability Status" >> }
    IN  { Call("_resolve_single_column",
               [user_field |-> f, available_columns |-> c]) :
            f \in ColumnTerms, c \in ColumnLists }

\* Calls of _fuzzy_match: terms against column lists in which two
\* candidates tie at the top, the best candidate is not the first, the
\* best ratio is exactly 0.8 ('abcd' and 'abcdxx') or just below it, or
\* nothing is similar.
FuzzyCalls ==
    { Call("_fuzzy_match", [term |-> t, candidates |-> c]) :
        t \in { "status", "adress", "abcd", "xyz" },
        c \in { << >>, << "StatusA", "StatusB" >>, << "StatusB", "StatusA" >>,
                << "Address", "Adress" >>, << "abcdxx" >>, << "abcdxxx" >>,
                << "ABCDxxx", "abcdyy", "abcdxx" >> } }

\* Calls of _synthesize_response on transformed tables of these row counts.
SynthesizeCalls ==
    { Call("_synthesize_response", [rows |-> r, json |-> j, gen |-> g]) :
        r \in { 0, 1, 9, 10, 11, 100, 101 }, j \in BOOLEAN,
        g \in GenOutcomes }

\* Calls of format_response: payloads, each with its number of rows under
\* the key rows, its number of keys beginning with source_, and its nesting
\* depth (a dict of scalars is one level deep).
FormatCalls ==
    LET FormatCases ==
         { [data |-> None, rows |-> 0, sources |-> 0, depth |-> 0],
           [data |-> Some(EmptyDict), rows |-> 0, sources |-> 0, depth |-> 0],
           [data |-> Some([rows |-> << >>, columns |-> << >>]),
            rows |-> 0, sources |-> 0, depth |-> 1],
           [data |-> Some(TablePayload(1)), rows |-> 1, sources |-> 0,
            depth |-> 3],
           [data |-> Some(TablePayload(10)), rows |-> 10, sources |-> 0,
            depth |-> 3],
           [data |-> Some(TablePayload(11)), rows |-> 11, sources |-> 0,
            depth |-> 3],
           [data |-> Some([source_0 |-> EmptyDict]),
            rows |-> 0, sources |-> 1, depth |-> 1],
           [data |-> Some([source_0 |-> EmptyDict, source_1 |-> EmptyDict]),
            rows |-> 0, sources |-> 2, depth |-> 1],
           [data |-> Some([resource_0 |-> EmptyDict, resource_1 |-> EmptyDict]),
            rows |-> 0, sources |-> 0, depth |-> 1],
           [data |-> Some([source_0 |-> TablePayload(1)]),
            rows |-> 0, sources |-> 1, depth |-> 4],
           [data |-> Some([source_0 |-> TablePayload(1),
                           source_1 |-> TablePayload(10)]),
            rows |-> 0, sources |-> 2, depth |-> 4],
           [data |-> Some([summary |-> [totals |-> [pages |-> EmptyDict]]]),
            rows |-> 0, sources |-> 0, depth |-> 3],
           [data |-> Some([summary |->
                             [totals |-> [pages |-> [errors |-> EmptyDict]]]]),
            rows |-> 0, sources |-> 0, depth |-> 4] }
    IN  { Call("format_response", [case |-> c, json |-> j]) :
            c \in FormatCases, j \in BOOLEAN }

\* Calls of _aggregate_results: lists of sub-results, each with the total
\* of the rows of the data it carries and the positions that carry data.
AggregateCalls ==
    LET Sub(r) == Resp("part", Some(TablePayload(r)), "analytics")
        Bare == Resp("part", None, "seo")
        Other == Resp("part", Some([summary |-> EmptyDict]), "seo")
        AggregateCases ==
         { [results |-> << Bare, Bare >>, total |-> 0, sources |-> {}],
           [results |-> << Sub(1) >>, total |-> 1, sources |-> {1}],
           [results |-> << Sub(5) >>, total |-> 5, sources |-> {1}],
           [results |-> << Sub(6) >>, total |-> 6, sources |-> {1}],
           [results |-> << Sub(2), Sub(3) >>, total |-> 5,
            sources |-> {1, 2}],
           [results |-> << Sub(3), Sub(3) >>, total |-> 6,
            sources |-> {1, 2}],
           [results |-> << Bare, Sub(6) >>, total |-> 6, sources |-> {2}],
           [results |-> << Other, Sub(5) >>, total |-> 5,
            sources |-> {1, 2}],
           [results |-> << Other, Other >>, total |-> 0,
            sources |-> {1, 2}],
           [results |-> << Sub(11), Sub(1) >>, total |-> 12,
            sources |-> {1, 2}] }
    IN  { Call("_aggregate_results",
               [case |-> c, json |-> j, unified_answer |-> t]) :
            c \in AggregateCases, j \in BOOLEAN,
            t \in { "unified", "" } }

\* A crawl sheet whose status codes occur once, three times and twice.
TableCrawl ==
    Table(<< "Address", "Status Code" >>,
          << ("Address" :> "/a") @@ ("Status Code" :> "301"),
             ("Address" :> "/b") @@ ("Status Code" :> "404"),
             ("Address" :> "/c") @@ ("Status Code" :> "200"),
             ("Address" :> "/d") @@ ("Status Code" :> "301"),
             ("Address" :> "/e") @@ ("Status Code" :> "404"),
             ("Address" :> "/f") @@ ("Status Code" :> "301") >>)

\* Calls of _process_data: a sheet, and a parsed query with or without
\* group_by, aggregation, sort field, a limit below the row count and a
\* selected column. The filters are none, or a usable filter after one
\* whose field ('depth') is not resolved, or after one whose column
\* ('Title 1') only one of the sheets has.
ProcessCalls ==
    LET resolved == ("status code" :> "Status Code") @@ ("url" :> "Address")
                       @@ ("title" :> "Title 1")
        OnStatus == Filter("status code", "equals", "404")
        Parsed(fs, g, a, f, d, l, sel) ==
            [SeoParsed(fs, sel, l, TRUE) EXCEPT
                !.group_by = g, !.aggregation = a, !.sort_by.field = f,
                !.sort_by.direction = d]
    IN  { Call("_process_data",
               [df |-> t, parsed |-> Parsed(fs, g, a, f, d, l, sel),
                resolved |-> resolved]) :
            t \in { TableMain, TableCrawl },
            fs \in { << >>,
                     << Filter("depth", "equals", "1"), OnStatus >>,
                     << Filter("title", "is_not_empty", ""), OnStatus >> },
            g \in { None, Some("status code") },
            a \in { None, Some("count"), Some("percentage"), Some("sum"),
                    Some("average") },
            f \in { None, Some("status code") },
            d \in { "asc", "desc" },
            l \in { 100, 2 },
            sel \in { << >>, << "status code" >> } }

\* Every variable but run.
frame ==
    << query, property_id, default_property_id, default_sheet_id, pc,
       json_requested, classification, decomposition,
       intent, tasks, slots, running, results, response,
       raised, _extended_enabled, _extended_reason, _available_columns,
       _cache, trace, runReportCalls, generationCalls, reported, order, outcome,
       all_answers, synthCalls >>

\* No request is being processed.
NoRequest ==
    /\ query = "top pages by sessions"
    /\ property_id = None
    /\ default_property_id = None
    /\ default_sheet_id = None
    /\ pc = "start"
    /\ json_requested = FALSE
    /\ classification = None
    /\ decomposition = ""
    /\ intent = ""
    /\ tasks = << >>
    /\ slots = << >>
    /\ running = 0
    /\ results = << >>
    /\ response = NoResp
    /\ raised = FALSE
    /\ _extended_enabled = FALSE
    /\ _extended_reason = ""
    /\ _available_columns = << >>
    /\ _cache = << >>
    /\ trace = << >>
    /\ runReportCalls = 0
    /\ generationCalls = 0
    /\ reported = NoReport
    /\ order = << >>
    /\ outcome = Returned(NoResp)
    /\ all_answers = << >>
    /\ synthCalls = 0

InitCalls ==
    /\ NoRequest
    /\ \/ run \in ValidateCalls
       \/ run \in ResolveCalls
       \/ run \in SynthesizeCalls
       \/ run \in FormatCalls
       \/ run \in AggregateCalls
       \/ run \in ProcessCalls
       \/ run \in FuzzyCalls

\* AnalyticsAgent._validate_field against the allowlist of the tier.
Call_validate_field ==
    /\ run.agent = "call" /\ run.stage = "input"
    /\ run.op = "_validate_field"
    /\ LET a == run.args
           valid_fields == IF a.field_type = "Metric"
                           THEN ValidMetrics(a.enabled)
                           ELSE ValidDimensions(a.enabled)
       IN  run' = [run EXCEPT !.stage = "output",
                     !.result = _validate_field(a.field, valid_fields,
                                                a.field_type)]
    /\ UNCHANGED frame

\* SEOAgent._resolve_single_column on the columns of the fetched sheet.
Call_resolve_single_column ==
    /\ run.agent = "call" /\ run.stage = "input"
    /\ run.op = "_resolve_single_column"
    /\ run' = [run EXCEPT !.stage = "output",
                 !.result = _resolve_single_column(run.args.user_field,
                                run.args.available_columns)]
    /\ UNCHANGED frame

\* SEOAgent._synthesize_response on a transformed table.
Call_synthesize_response ==
    /\ run.agent = "call" /\ run.stage = "input"
    /\ run.op = "_synthesize_response"
    /\ LET a == run.args
           info == [original_rows |-> 101, filters_applied |-> 0,
                    final_rows |-> a.rows]
       IN  run' = [run EXCEPT !.stage = "output",
                     !.result = SeoSynthesize(ResultTable(a.rows), info,
                                              a.json, a.gen)]
    /\ UNCHANGED frame

\* ResponseFormatter.format_response.
Call_format_response ==
    /\ run.agent = "call" /\ run.stage = "input"
    /\ run.op = "format_response"
    /\ run' = [run EXCEPT !.stage = "output",
                 !.result = format_response("summary", run.args.case.data,
                                            "seo", run.args.json)]
    /\ UNCHANGED frame

\* Orchestrator._aggregate_results.
Call_aggregate_results ==
    /\ run.agent = "call" /\ run.stage = "input"
    /\ run.op = "_aggregate_results"
    /\ run' = [run EXCEPT !.stage = "output",
                 !.result = _aggregate_results(run.args.case.results,
                                run.args.json, run.args.unified_answer)]
    /\ UNCHANGED frame

\* SEOAgent._process_data.
Call_process_data ==
    /\ run.agent = "call" /\ run.stage = "input"
    /\ run.op = "_process_data"
    /\ \E p \in _process_data(run.args.df, run.args.parsed,
                               run.args.resolved) :
          run' = [run EXCEPT !.stage = "output", !.result = p]
    /\ UNCHANGED frame

\* SEOAgent._fuzzy_match.
Call_fuzzy_match ==
    /\ run.agent = "call" /\ run.stage = "input"
    /\ run.op = "_fuzzy_match"
    /\ run' = [run EXCEPT !.stage = "output",
                 !.result = _fuzzy_match(run.args.term, run.args.candidates)]
    /\ UNCHANGED frame

NextCalls ==
    \/ Call_validate_field
    \/ Call_resolve_single_column
    \/ Call_synthesize_response
    \/ Call_format_response
    \/ Call_aggregate_results
    \/ Call_process_data
    \/ Call_fuzzy_match

SpecCalls == InitCalls /\ [][NextCalls]_vars

\* ------------------------------------------------------------------------
\* The retry loops of the collaborators
\* ------------------------------------------------------------------------

\* LLMClient.MAX_RETRIES, BASE_DELAY and MAX_DELAY (seconds).
LLM_MAX_RETRIES == 5

LLM_BASE_DELAY == 1

LLM_MAX_DELAY == 16

\* GA4Client.BASE_DELAY (seconds).
BASE_DELAY == 1

\* A call of a retry loop at the top of its first iteration: the loop
\* index, the API calls made, the sleeps taken, the errors of the failed
\* attempts, and what the call returned or raised once it has ended.
RetryCall(op, json_mode) ==
    [agent |-> "retry", op |-> op, stage |-> "loop", json_mode |-> json_mode,
     attempt |-> 0, calls |-> 0, waits |-> << >>, errors |-> << >>,
     result |-> [kind |-> "", text |-> ""]]

\* An error of an API call; status is None for an error that has no status
\* code.
ApiError(kind, status) == [kind |-> kind, status |-> status, parses |-> FALSE]

\* What one iteration of LLMClient.chat meets: a completion whose content
\* parses as JSON or does not; RateLimitError (429); APITimeoutError; an
\* APIError with a status code (server or client error) or without one
\* (a connection error); any other exception.
ChatOutcomes ==
    { [kind |-> "ok", status |-> None, parses |-> b] : b \in BOOLEAN }
    \cup { ApiError("RateLimitError", Some(429)),
           ApiError("APITimeoutError", None),
           ApiError("APIError", Some(500)),
           ApiError("APIError", Some(503)),
           ApiError("APIError", Some(400)),
           ApiError("APIError", None),
           ApiError("Exception", None) }

\* A loop that also goes on after a client error.
ChatRetriedMutant(out, attempt) ==
    /\ attempt < LLM_MAX_RETRIES - 1
    /\ \/ out.kind \in { "RateLimitError", "APITimeoutError" }
       \/ out.kind = "APIError" /\ out.status # None

\* Whether chat sleeps and goes on to the next iteration after this error.
ChatRetried(out, attempt) ==
    /\ attempt < LLM_MAX_RETRIES - 1
    /\ \/ out.kind \in { "RateLimitError", "APITimeoutError" }
       \/ out.kind = "APIError" /\ out.status # None
            /\ out.status[1] >= 500

\* The sleep of chat before the next iteration.
ChatWait(out, attempt) ==
    IF out.kind = "RateLimitError"
    THEN Min({ LLM_BASE_DELAY * (2 ^ attempt), LLM_MAX_DELAY })
    ELSE IF out.kind = "APITimeoutError" THEN LLM_BASE_DELAY
    ELSE LLM_BASE_DELAY * (2 ^ attempt)

\* One iteration of the loop of LLMClient.chat. A completion is returned,
\* parsed in JSON mode (ValueError when it does not parse, which the last
\* except clause re-raises). An error is retried or re-raised; reading
\* status_code of an APIError that has none raises AttributeError. The
\* statement after the loop is never reached: the last iteration returns
\* or raises.
Chat_Attempt ==
    /\ run.agent = "retry" /\ run.op = "chat" /\ run.stage = "loop"
    /\ \E out \in ChatOutcomes :
          LET tried == [run EXCEPT !.calls = @ + 1]
              failed == [tried EXCEPT
                           !.errors = Append(@, [kind |-> out.kind,
                                                 status |-> out.status])]
          IN  IF out.kind = "ok"
              THEN IF run.json_mode /\ ~out.parses
                   THEN run' = [tried EXCEPT !.stage = "raised",
                                   !.result = [kind |-> "ValueError",
                                       text |-> "no valid JSON"]]
                   ELSE run' = [tried EXCEPT !.stage = "returned",
                                   !.result = [kind |-> "content",
                                               text |-> "completion"]]
              ELSE IF ChatRetried(out, run.attempt)
              THEN run' = [failed EXCEPT
                              !.attempt = @ + 1,
                              !.waits = Append(@, ChatWait(out, run.attempt))]
              ELSE IF /\ out.kind = "APIError" /\ out.status = None
                      /\ run.attempt < LLM_MAX_RETRIES - 1
              THEN run' = [failed EXCEPT !.stage = "raised",
                              !.result = [kind |-> "AttributeError",
                                          text |-> "status_code"]]
              ELSE run' = [failed EXCEPT !.stage = "raised",
                              !.result = [kind |-> out.kind, text |-> ""]]
    /\ UNCHANGED frame

\* What one iteration of GA4Client._execute_with_retry meets: a response;
\* ResourceExhausted; a GoogleAPIError that _is_transient_error accepts or
\* not; any other exception.
ExecuteOutcomes ==
    { "ok", "ResourceExhausted", "TransientError", "GoogleAPIError",
      "Exception" }

\* A loop that also goes on after an error that is not transient.
ExecuteRetriedMutant(kind) ==
    kind \in { "ResourceExhausted", "TransientError", "GoogleAPIError" }

\* Whether _execute_with_retry sleeps and goes on after this error.
ExecuteRetried(kind) == kind \in { "ResourceExhausted", "TransientError" }

\* One iteration of the loop of GA4Client._execute_with_retry, called by
\* run_report for AnalyticsAgent.process: text is the answer process()
\* returns for the GA4APIError raised.
Execute_Attempt ==
    /\ run.agent = "retry" /\ run.op = "_execute_with_retry"
    /\ run.stage = "loop"
    /\ \E kind \in ExecuteOutcomes :
          LET tried == [run EXCEPT !.calls = @ + 1]
              failed == [tried EXCEPT
                           !.errors = Append(@, [kind |-> kind,
                                                 status |-> None])]
              Error(msg) ==
                  [kind |-> "GA4APIError",
                   text |-> AnalyticsExcept("GA4APIError", msg).res.answer]
          IN  IF kind = "ok"
              THEN run' = [tried EXCEPT !.stage = "returned",
                              !.result = [kind |-> "response", text |-> ""]]
              ELSE IF ExecuteRetried(kind)
              THEN IF run.attempt + 1 < MAX_RETRIES
                   THEN run' = [failed EXCEPT
                                   !.attempt = @ + 1,
                                   !.waits = Append(@,
                                       BASE_DELAY * (2 ^ run.attempt))]
                   ELSE run' = [failed EXCEPT
                                   !.stage = "raised",
                                   !.waits = Append(@,
                                       BASE_DELAY * (2 ^ run.attempt)),
                                   !.result = Error(
                                       "GA4 API temporarily unavailable "
                                       \o "after multiple retries. Please "
                                       \o "try again in a moment.")]
              ELSE IF kind = "GoogleAPIError"
              THEN run' = [failed EXCEPT !.stage = "raised",
                              !.result = Error("GA4 API error: error")]
              ELSE run' = [failed EXCEPT !.stage = "raised",
                              !.result = Error("Unexpected error calling "
                                               \o "GA4 API: error")]
    /\ UNCHANGED frame

InitRetry ==
    /\ NoRequest
    /\ run \in { RetryCall("chat", FALSE), RetryCall("chat", TRUE),
                 RetryCall("_execute_with_retry", FALSE) }

NextRetry ==
    \/ Chat_Attempt
    \/ Execute_Attempt

\* Every iteration of a loop ends: the API calls have a timeout and the
\* sleeps are finite.
SpecRetry == InitRetry /\ [][NextRetry]_vars /\ WF_vars(NextRetry)

\* ------------------------------------------------------------------------
\* Two analytics sub-tasks on the one AnalyticsAgent
\* ------------------------------------------------------------------------

\* _execute_tasks_parallel at the call of asyncio.gather, for a task list of
\* two analytics tasks: both coroutines are pending, and the fields of the
\* agent are as __init__ left them.
InitShared ==
    /\ query = "top pages by sessions"
    /\ property_id \in { None, Some("properties/42") }
    /\ default_property_id = None
    /\ default_sheet_id = None
    /\ pc = "gather"
    /\ json_requested = _detect_json_request(query)
    /\ classification = Some(" Multi-Agent\n")
    /\ decomposition = "list"
    /\ intent = INTENT_MULTI
    /\ tasks \in [1..2 -> { Task("analytics", Some(q)) :
                              q \in { "top pages by sessions",
                                      "Revenue by country" } }]
    /\ slots = [i \in 1..2 |-> PendingSlot]
    /\ running = 0
    /\ run = NoRun
    /\ results = << >>
    /\ response = NoResp
    /\ raised = FALSE
    /\ _extended_enabled = FALSE
    /\ _extended_reason = ""
    /\ _available_columns = << >>
    /\ _cache = << >>
    /\ trace = << >>
    /\ runReportCalls = 0
    /\ generationCalls = 0
    /\ reported = NoReport
    /\ order = << >>
    /\ outcome = Returned(NoResp)
    /\ all_answers = << >>
    /\ synthCalls = 0

\* The event loop runs the two coroutines, each to its end, in either
\* order; gather returns when both are done.
NextShared ==
    \/ \E i \in 1..2 : StartTask(i)
    \/ A_Begin
    \/ A_Parse
    \/ A_Validate
    \/ A_Execute
    \/ A_Synthesize
    \/ GatherReturn

SpecShared == InitShared /\ [][NextShared]_vars

\* ------------------------------------------------------------------------
\* SheetsClient: the session cache
\* ------------------------------------------------------------------------

\* Sheet ids passed to the client.
SheetIds == { "sheet1", "sheet2" }

\* A fetch_sheet that never looks into the cache.
FetchSheetMutant(cache, sheet_id, force_refresh, out) ==
    IF out.kind = "ok"
    THEN [fetches |-> 1, cache |-> (sheet_id :> out.df) @@ cache,
          result |-> out]
    ELSE [fetches |-> 1, cache |-> cache, result |-> out]

\* fetch_sheet, given the outcome out the API fetch has if it is made: the
\* number of API fetches, the cache afterwards, and the table returned or
\* the exception raised.
fetch_sheet(cache, sheet_id, force_refresh, out) ==
    IF ~force_refresh /\ sheet_id \in DOMAIN cache
    THEN [fetches |-> 0, cache |-> cache,
          result |-> [kind |-> "ok", df |-> cache[sheet_id]]]
    ELSE IF out.kind = "ok"
    THEN [fetches |-> 1, cache |-> (sheet_id :> out.df) @@ cache,
          result |-> out]
    ELSE [fetches |-> 1, cache |-> cache, result |-> out]

\* clear_cache: the entry of the given id, or every entry when no id is
\* given (None, or an empty id).
clear_cache(cache, sheet_id) ==
    IF Truthy(sheet_id)
    THEN [k \in DOMAIN cache \ { sheet_id[1] } |-> cache[k]]
    ELSE << >>

\* A call of SheetsClient.fetch_sheet.
Call_fetch_sheet ==
    /\ run.agent = "sheets"
    /\ \E id \in SheetIds, force \in BOOLEAN, out \in FetchOutcomes :
          LET f == fetch_sheet(_cache, id, force, out)
          IN  /\ _cache' = f.cache
              /\ run' = [agent |-> "sheets", op |-> "fetch_sheet",
                         sheet_id |-> Some(id), force_refresh |-> force,
                         fetches |-> f.fetches, result |-> f.result]
    /\ UNCHANGED << inputVars, orchVars, agentVars, _available_columns,
                    slots, running, order, outcome, trace, runReportCalls,
                    generationCalls, reported >>

\* A call of SheetsClient.clear_cache.
Call_clear_cache ==
    /\ run.agent = "sheets"
    /\ \E id \in { None } \cup { Some(i) : i \in SheetIds } :
          /\ _cache' = clear_cache(_cache, id)
          /\ run' = [agent |-> "sheets", op |-> "clear_cache",
                     sheet_id |-> id, force_refresh |-> FALSE,
                     fetches |-> 0,
                     result |-> [kind |-> "ok", df |-> TableEmpty]]
    /\ UNCHANGED << inputVars, orchVars, agentVars, _available_columns,
                    slots, running, order, outcome, trace, runReportCalls,
                    generationCalls, reported >>

\* A client just constructed: nothing is cached.
InitCache ==
    /\ NoRequest
    /\ run = [agent |-> "sheets", op |-> "", sheet_id |-> None,
              force_refresh |-> FALSE, fetches |-> 0,
              result |-> [kind |-> "ok", df |-> TableEmpty]]

NextCache ==
    \/ Call_fetch_sheet
    \/ Call_clear_cache

SpecCache == InitCache /\ [][NextCache]_vars

\* ------------------------------------------------------------------------
\* Properties of the analytics and SEO pipelines (SpecSingle)
\* ------------------------------------------------------------------------

\* The analytics stages in their order.
Stages == << "Parse", "Validate", "Execute", "Synthesize" >>

IsPrefix(s, t) == Len(s) <= Len(t) /\ s = SubSeq(t, 1, Len(s))

\* The request was routed to the analytics agent alone.
AnalyticsRequest == intent = INTENT_ANALYTICS /\ pc \in { "single", "done" }

\* The call of process() made for the request has ended.
CallEnded ==
    pc \in { "single", "done" } /\ slots # << >> /\ slots[1].status = "done"

\* The process() call ended before its last stage.
StageFailure == trace = << >> \/ trace[Len(trace)] # "Synthesize"

\* Texts of the ValidationError a parsed query of the model can raise.
ValidationMessages ==
    LET checks == { ValidateAll(_parse_query(out).metrics,
                                _parse_query(out).dimensions, enabled) :
                      out \in CommonParseOutcomes \cup RequestParseOutcomes,
                      enabled \in BOOLEAN }
    IN  { v.error : v \in { c \in checks : ~c.ok } }

\* C1: with no property id in the request and no configured default, the
\* analytics process() runs no stage, never calls run_report, and returns
\* the guidance text with data = null and agent_used = 'analytics'.
C1_NoPropertyNoReport ==
    (AnalyticsRequest /\ property_id = None /\ default_property_id = None)
        => /\ trace = << >>
           /\ runReportCalls = 0
           /\ CallEnded =>
                /\ outcome = Returned(Resp(PropertyRequiredMsg, None,
                                           "analytics"))
                /\ slots[1].kind = "result"
                /\ slots[1].res = outcome.res

C1_Witness ==
    /\ AnalyticsRequest /\ property_id = None /\ default_property_id = None
    /\ pc = "done"
    /\ response = Resp(PropertyRequiredMsg, None, "analytics")

\* C2: the analytics stages run in the order Parse, Validate, Execute,
\* Synthesize, none twice; run_report is called at most once, and only with
\* metrics and dimensions of the active tier's allowlist; when validation
\* fails run_report is not called and the response is the validation
\* message with data = null.
C2_StagesInOrder ==
    AnalyticsRequest
        => /\ IsPrefix(trace, Stages)
           /\ runReportCalls <= 1
           /\ runReportCalls = 1
                => /\ Len(trace) >= 3
                   /\ Range(reported.metrics)
                         \subseteq ValidMetrics(_extended_enabled)
                   /\ Range(reported.dimensions)
                         \subseteq ValidDimensions(_extended_enabled)
           /\ (CallEnded /\ trace = << "Parse", "Validate" >>)
                => /\ runReportCalls = 0
                   /\ outcome.res.answer \in ValidationMessages
                   /\ outcome.res.data = None

C2_Witness ==
    /\ AnalyticsRequest /\ pc = "done"
    /\ trace = Stages
    /\ runReportCalls = 1
    /\ reported.metrics = << "activeUsers" >>
    /\ reported.dimensions = << "itemName" >>
    /\ _extended_enabled

\* C3: neither process() raises: every call returns a response, and a call
\* that ended before its last stage returns a response with data = null and
\* the agent's own label.
C3_ProcessNeverRaises ==
    CallEnded
        => /\ ~outcome.raised
           /\ slots[1].kind = "result"
           /\ StageFailure
                => /\ outcome.res.answer # ""
                   /\ outcome.res.data = None
                   /\ outcome.res.agent_used = intent

C3_Witness ==
    /\ AnalyticsRequest /\ pc = "done"
    /\ trace = << "Parse", "Validate", "Execute" >>
    /\ outcome.res.answer =
          "An error occurred processing your analytics query: unexpected error"
    /\ response.data = None

\* C4 (as claimed): when the extraction call raises, the request goes on
\* through validation to Execute with the default values.
C4_ExtractionFailureReachesExecute ==
    [][(/\ run.agent = "analytics"
        /\ run.stage = "validate"
        /\ run.extraction = "raise")
          => /\ run.parsed = ParseDefaults
             /\ run'.stage = "execute"]_vars

\* ------------------------------------------------------------------------
\* Properties of the multi-agent route (SpecMulti)
\* ------------------------------------------------------------------------

\* The request was routed to the multi-agent path and its decomposition
\* returned.
MultiRequest ==
    intent = INTENT_MULTI /\ pc \in { "gather", "aggregate", "done" }

\* Aggregation has begun.
Aggregating == intent = INTENT_MULTI /\ pc \in { "aggregate", "done" }

\* process_query returned the aggregated response.
MultiReturned == intent = INTENT_MULTI /\ pc = "done" /\ ~raised

\* Sub-tasks whose call returned a response, and those dropped.
Surviving == { i \in DOMAIN slots : slots[i].kind = "result" }

Dropped == { i \in DOMAIN slots : slots[i].kind \in { "exc", "none" } }

\* Sub-tasks whose response carries data.
WithData ==
    { i \in Surviving : slots[i].res.data \notin { None, Some(EmptyDict) } }

\* C5: when no sub-task is dropped, the data mapping numbers the sub-tasks
\* in submission order whatever the order of completion: source_i is the
\* data of task i.
C5_SubmissionOrder ==
    (MultiReturned /\ response.data # None /\ Dropped = {})
        => /\ DOMAIN response.data[1] = WithData
           /\ \A i \in WithData : response.data[1][i] = slots[i].res.data[1]

C5_Witness ==
    /\ MultiReturned
    /\ order = << 2, 1 >>
    /\ response.data # None
    /\ DOMAIN response.data[1] = { 1, 2 }
    /\ response.data[1][1] = slots[1].res.data[1]
    /\ response.data[1][1] # response.data[1][2]

\* C6 (as claimed): every key source_i of the data mapping holds the data
\* of the task at position i of the decomposed list, also when other
\* sub-tasks were dropped.
C6_KeyIsTaskPosition ==
    (MultiReturned /\ response.data # None)
        => \A i \in DOMAIN response.data[1] :
              /\ i \in WithData
              /\ response.data[1][i] = slots[i].res.data[1]

\* C7: a sub-task that raised or named an unrecognized agent is dropped and
\* does not fail the request: the responses of the other sub-tasks are the
\* aggregated results, in order; the request raises only when the synthesis
\* call raises; the returned response is labelled 'multi-agent' and holds
\* the answers (every text that is not empty) and data of the other
\* sub-tasks.
C7_DroppedTaskDoesNotFail ==
    (Aggregating /\ Dropped # {})
        => /\ Len(results) = Cardinality(Surviving)
           /\ \A i \in Surviving :
                 results[Cardinality({ j \in Surviving : j <= i })]
                    = slots[i].res
           /\ (pc = "done" /\ raised) => synthCalls = 1
           /\ (pc = "done" /\ ~raised)
                => /\ response.agent_used = INTENT_MULTI
                   /\ Surviving # {}
                        => /\ Len(all_answers)
                                = Cardinality({ k \in DOMAIN results :
                                                  results[k].answer # "" })
                           /\ \A k \in DOMAIN results :
                                results[k].answer # ""
                                   => \E j \in DOMAIN all_answers :
                                         all_answers[j] = results[k].answer
                   /\ response.data # None
                        => /\ \A k \in DOMAIN response.data[1] :
                                \E i \in WithData :
                                   response.data[1][k] = slots[i].res.data[1]
                           /\ \A i \in WithData :
                                \E k \in DOMAIN response.data[1] :
                                   response.data[1][k] = slots[i].res.data[1]

C7_Witness ==
    /\ MultiReturned
    /\ \E i, j \in DOMAIN slots :
          /\ slots[i].kind = "exc"
          /\ j \in WithData
          /\ all_answers = << slots[j].res.answer >>
          /\ response.data = Some(1 :> slots[j].res.data[1])
    /\ response.agent_used = INTENT_MULTI

\* Answers with which the analytics agent reports a failure of its call.
FailureAnswers ==
    { PropertyRequiredMsg,
      "Error querying Google Analytics: GA4 API temporarily unavailable" }
    \cup ValidationMessages

\* C8 (as claimed): the answer of a sub-agent that failed on its sub-task is
\* not part of the input of the combined answer.
C8_FailedAgentExcluded ==
    Aggregating
        => \A k \in DOMAIN all_answers : all_answers[k] \notin FailureAnswers

\* C9: when no result survives (every sub-task was dropped, or there was
\* none), the response is the fixed 'Unable to process' answer with
\* data = null and agent_used = 'multi-agent', and no synthesis call is made.
C9_NothingSurvives ==
    (intent = INTENT_MULTI /\ pc = "done" /\ Surviving = {}
       /\ (slots # << >> \/ ~raised))
        => /\ ~raised
           /\ response = Resp(UnableMsg, None, INTENT_MULTI)
           /\ synthCalls = 0
           /\ all_answers = << >>

C9_Witness ==
    /\ MultiReturned
    /\ Len(slots) = 2
    /\ slots[1].kind = "none"
    /\ slots[2].kind = "exc"
    /\ response.answer = UnableMsg

\* C10: aggregation begins only when every dispatched sub-task has completed
\* or failed and none is running, and from then on no sub-task result
\* arrives or changes.
C10_AggregateAfterAll ==
    /\ [](Aggregating
            => /\ running = 0
               /\ \A i \in DOMAIN slots : slots[i].status = "done"
               /\ Len(order) = Len(slots))
    /\ [][Aggregating => (slots' = slots /\ order' = order)]_vars

C10_Witness ==
    /\ intent = INTENT_MULTI /\ pc = "aggregate"
    /\ Len(slots) = 2
    /\ Len(results) = 2
    /\ order = << 2, 1 >>

\* ------------------------------------------------------------------------
\* Properties of the metric tiers (SpecSingle)
\* ------------------------------------------------------------------------

\* The acknowledgment text for an active tier with the given reason.
NoteFor(reason) ==
    "(Note: Including extended metrics to answer your " \o reason \o ".) "

\* C11: once the extended flag is active for an analytics request (it can
\* become active in Validate only), every later step of that request keeps
\* the flag and its reason, and the response returned by Synthesize starts
\* with the acknowledgment built from that reason.
C11_TierStaysActive ==
    [][(/\ run.agent = "analytics"
        /\ run.stage \in { "execute", "synthesize" }
        /\ _extended_enabled)
          => /\ _extended_enabled'
             /\ _extended_reason' = _extended_reason
             /\ run.stage = "synthesize"
                  => /\ ~outcome'.raised
                     /\ IsPrefix(NoteFor(_extended_reason),
                                 outcome'.res.answer)]_vars

C11_Witness ==
    /\ AnalyticsRequest /\ pc = "done"
    /\ trace = Stages
    /\ _extended_enabled
    /\ _extended_reason = "metric 'totalRevenue' requires extended tier"
    /\ IsPrefix(NoteFor(_extended_reason), response.answer)

\* The activation condition: a trigger keyword occurs in the lower-cased
\* query, or a parsed metric or dimension belongs to the extended tier.
TierTriggered(q, parsed) ==
    \/ \E i \in DOMAIN EXTENDED_TRIGGERS :
         Contains(EXTENDED_TRIGGERS[i], Lower(q))
    \/ Range(parsed.metrics) \cap EXTENDED_METRICS # {}
    \/ Range(parsed.dimensions) \cap EXTENDED_DIMENSIONS # {}

\* C12: Validate leaves the extended flag active exactly when the
\* activation condition holds; the parsed names pass validation exactly
\* when they are core names, or extended names with the flag active; a query
\* mentioning 'revenue' whose parsed metric is totalRevenue passes, with a
\* reason naming that keyword.
C12_TierIffTriggered ==
    [][(run.agent = "analytics" /\ run.stage = "validate"
        /\ run.query # None)
          => LET active == TierTriggered(run.query[1], run.parsed)
                 okm == IF active THEN CORE_METRICS \cup EXTENDED_METRICS
                        ELSE CORE_METRICS
                 okd == IF active
                        THEN CORE_DIMENSIONS \cup EXTENDED_DIMENSIONS
                        ELSE CORE_DIMENSIONS
             IN  /\ _extended_enabled' = active
                 /\ run'.stage = "execute"
                      <=> /\ Range(run.parsed.metrics) \subseteq okm
                          /\ Range(run.parsed.dimensions) \subseteq okd
                 /\ (/\ Contains("revenue", Lower(run.query[1]))
                     /\ run.parsed.metrics = << "totalRevenue" >>
                     /\ Range(run.parsed.dimensions) \subseteq okd)
                      => /\ run'.stage = "execute"
                         /\ run'.metrics = << "totalRevenue" >>
                         /\ Contains("revenue", _extended_reason')]_vars

C12_Witness ==
    /\ AnalyticsRequest /\ pc = "done"
    /\ query = "Revenue by country"
    /\ runReportCalls = 1
    /\ reported.metrics = << "totalRevenue" >>
    /\ _extended_enabled
    /\ _extended_reason = "query mentions 'revenue'"

\* ------------------------------------------------------------------------
\* Properties of single functions (SpecCalls)
\* ------------------------------------------------------------------------

\* The call of the function op has returned.
CallReturned(op) ==
    run.agent = "call" /\ run.stage = "output" /\ run.op = op

\* C13 (as claimed): a term that equals a catalog name when case is ignored
\* resolves to that catalog name as an exact match: _validate_field accepts
\* it, and _resolve_single_column returns that column without a warning.
C13_ExactMatchIgnoringCase ==
    /\ CallReturned("_validate_field")
         => LET a == run.args
                valid_fields == IF a.field_type = "Metric"
                                THEN ValidMetrics(a.enabled)
                                ELSE ValidDimensions(a.enabled)
            IN  (\E name \in valid_fields : Lower(name) = Lower(a.field))
                   => /\ run.result.ok
                      /\ Lower(run.result.field) = Lower(a.field)
    /\ CallReturned("_resolve_single_column")
         => LET a == run.args
                same == { i \in DOMAIN a.available_columns :
                            Lower(a.available_columns[i])
                               = Lower(a.user_field) }
            IN  same # {}
                   => /\ run.result.status = "resolved"
                      /\ Lower(run.result.column) = Lower(a.user_field)
                      /\ run.result.warning = ""

\* C17 (as claimed): for a non-JSON request with a non-empty result of r
\* rows, the response of _synthesize_response carries the payload exactly
\* when 10 <= r <= 100.
C17_HybridWindowInclusive ==
    (/\ CallReturned("_synthesize_response")
     /\ ~run.args.json
     /\ run.args.rows > 0)
        => /\ run.result.data # None
                <=> (10 <= run.args.rows /\ run.args.rows <= 100)
           /\ run.result.data # None
                => run.result.data = Some(TablePayload(run.args.rows))

\* C20: format_response returns the JSON form when JSON is requested;
\* otherwise the answer alone for an absent or empty payload; otherwise
\* answer and payload exactly when the payload has more than 10 rows, or at
\* least 2 source_ keys, or a nesting depth above 3; otherwise the answer
\* alone with data = null.
C20_FormatSelector ==
    CallReturned("format_response")
        => LET c == run.args.case
               absent == c.data = None \/ c.data = Some(EmptyDict)
               hybrid == c.rows > 10 \/ c.sources >= 2 \/ c.depth > 3
           IN  IF run.args.json
               THEN run.result = Resp("Results returned in JSON format",
                                      IF c.data = None THEN Some(EmptyDict)
                                      ELSE c.data, "seo")
               ELSE IF absent THEN run.result = Resp("summary", None, "seo")
               ELSE IF hybrid THEN run.result = Resp("summary", c.data, "seo")
               ELSE run.result = Resp("summary", None, "seo")

C20_Witness ==
    /\ CallReturned("format_response")
    /\ ~run.args.json
    /\ run.args.case.depth = 4 /\ run.args.case.sources = 1
    /\ run.result = Resp("summary", run.args.case.data, "seo")

\* ------------------------------------------------------------------------
\* Properties of field resolution in the pipelines (SpecSingle)
\* ------------------------------------------------------------------------

\* The request was routed to the SEO agent alone.
SeoRequest == intent = INTENT_SEO /\ pc \in { "single", "done" }

\* C14 (as claimed): every warning _resolve_columns collected for a fuzzy
\* substitution is present in the response process() returns, in its answer
\* or under a key of its data.
C14_FuzzyWarningSurfaced ==
    [][(run.agent = "seo" /\ run.stage = "synthesize")
          => \A i \in DOMAIN run.warnings :
               \/ Contains(run.warnings[i], outcome'.res.answer)
               \/ /\ outcome'.res.data # None
                  /\ "warnings" \in DOMAIN outcome'.res.data[1]]_vars

\* C15: the metric and dimension names passed to run_report are the names
\* the parse stage produced, unchanged and in the same order; a name that
\* fails validation ends the request without a run_report call, with an
\* answer that quotes the name as parsed and data = null.
C15_NoSilentSubstitution ==
    [][/\ (run.agent = "analytics" /\ run.stage = "execute")
            => /\ reported'.metrics = run.parsed.metrics
               /\ reported'.dimensions = run.parsed.dimensions
       /\ (/\ run.agent = "analytics" /\ run.stage = "validate"
           /\ run.query # None /\ run'.agent = "")
            => /\ runReportCalls' = 0
               /\ outcome'.res.data = None
               /\ \E f \in Range(run.parsed.metrics)
                             \cup Range(run.parsed.dimensions) :
                    Contains("'" \o f \o "' is not",
                             outcome'.res.answer)]_vars

C15_Witness ==
    /\ AnalyticsRequest /\ CallEnded
    /\ trace = << "Parse", "Validate" >>
    /\ outcome.res.answer = "Metric 'saless' is not"
    /\ runReportCalls = 0

\* C16: when a field referenced by the parsed SEO query fails to resolve,
\* the request ends at ColumnResolve with data = null and an answer naming
\* every failing field; otherwise every referenced field is resolved, and
\* Transform and Synthesize run only on a fully resolved query.
C16_ResolveAllOrNothing ==
    /\ [][(/\ run.agent = "seo" /\ run.stage = "resolve"
           /\ run.parsed.sort_by.isdict)
            => LET fields == FieldsToResolve(run.parsed)
                   failing ==
                     { f \in fields :
                         _resolve_single_column(f, _available_columns).status
                            = "error" }
               IN  IF failing # {}
                   THEN /\ run'.agent = ""
                        /\ trace' = << "Fetch", "Parse", "ColumnResolve" >>
                        /\ ~outcome'.raised
                        /\ outcome'.res.data = None
                        /\ \A f \in failing :
                             Contains("'" \o f \o "'", outcome'.res.answer)
                   ELSE /\ run'.stage = "transform"
                        /\ DOMAIN run'.resolved = fields]_vars
    /\ [](run.agent = "seo" /\ run.stage \in { "transform", "synthesize" }
            => DOMAIN run.resolved = FieldsToResolve(run.parsed))

C16_Witness ==
    /\ SeoRequest /\ CallEnded
    /\ trace = << "Fetch", "Parse", "ColumnResolve" >>
    /\ IsPrefix("Could not resolve the following fields:",
                outcome.res.answer)
    /\ Contains("'meta description'", outcome.res.answer)
    /\ Contains("'word count'", outcome.res.answer)
    /\ outcome.res.data = None

\* C18: without a sheet id the SEO process() runs no stage (no fetch, no
\* extraction or generation call) and returns, without raising, the
\* guidance text with data = null and agent_used = 'seo'.
C18_NoSheetGuidance ==
    (SeoRequest /\ ~Truthy(default_sheet_id))
        => /\ trace = << >>
           /\ _cache = << >>
           /\ CallEnded
                => /\ outcome = Returned(Resp(SheetRequiredMsg, None, "seo"))
                   /\ slots[1].kind = "result"
                   /\ slots[1].res = outcome.res

C18_Witness ==
    /\ SeoRequest /\ default_sheet_id = None
    /\ pc = "done"
    /\ ~raised
    /\ response = Resp(SheetRequiredMsg, None, "seo")

\* C19 (as claimed): when the SEO extraction call raises, the defaults (no
\* filters, no grouping, limit 100, ascending sort) are used and, the sheet
\* being non-empty, ColumnResolve passes the request on to Transform.
C19_SeoExtractionFailureProceeds ==
    [][(/\ run.agent = "seo"
        /\ run.stage = "resolve"
        /\ run.extraction = "raise")
          => /\ run.parsed.filters = << >>
             /\ run.parsed.group_by = None
             /\ run.parsed.limit = 100
             /\ run.parsed.sort_by.direction = "asc"
             /\ ~IsEmptyTable(run.df)
             /\ run'.stage = "transform"]_vars

\* ------------------------------------------------------------------------
\* Properties of the JSON form (SpecCalls)
\* ------------------------------------------------------------------------

\* C21 (as claimed): when JSON is requested format_response returns the
\* payload it was given, an absent or empty one included, and the fixed
\* confirmation string as the answer.
C21_JsonPayloadVerbatim ==
    (CallReturned("format_response") /\ run.args.json)
        => /\ run.result.data = run.args.case.data
           /\ run.result.answer = "Results returned in JSON format"

\* C21 (amended): when JSON is requested format_response returns every
\* present payload unchanged, whatever its rows, sources and nesting, an
\* absent payload as the empty mapping, and the fixed confirmation string as
\* the answer; _synthesize_response then returns the whole result table.
C21_JsonPayloadKept ==
    /\ (CallReturned("format_response") /\ run.args.json)
         => /\ run.args.case.data # None
                 => run.result.data = run.args.case.data
            /\ run.args.case.data = None
                 => run.result.data = Some(EmptyDict)
            /\ run.result.answer = "Results returned in JSON format"
            /\ run.result.agent_used = "seo"
    /\ (CallReturned("_synthesize_response") /\ run.args.json)
         => /\ run.args.rows > 0
                 => run.result.data = Some(TablePayload(run.args.rows))
            /\ run.args.rows = 0
                 => run.result.data
                       = Some([rows |-> << >>, columns |-> << >>])
            /\ run.result.answer = "Results returned in JSON format"

C21_Witness ==
    /\ CallReturned("format_response") /\ run.args.json
    /\ run.args.case.rows = 1
    /\ run.result.data = Some(TablePayload(1))

\* ------------------------------------------------------------------------
\* Properties of process_query (SpecSingle)
\* ------------------------------------------------------------------------

IntentLabels == { INTENT_ANALYTICS, INTENT_SEO, INTENT_MULTI }

\* The classification call returned a text that is none of the labels.
InvalidLabel ==
    /\ classification # None
    /\ Lower(Strip(classification[1])) \notin IntentLabels

\* C22: once the classification call has returned, the intent is one of the
\* three labels: the trimmed, lower-cased text if that is a label, and
\* 'analytics' otherwise; a request whose text was no label runs the
\* analytics pipeline and process_query returns its response, not an error.
C22_InvalidLabelDefaults ==
    /\ classification # None
         => /\ intent \in IntentLabels
            /\ IF InvalidLabel THEN intent = INTENT_ANALYTICS
               ELSE intent = Lower(Strip(classification[1]))
    /\ (InvalidLabel /\ pc = "single" /\ running = 1)
         => run.agent = "analytics"
    /\ (InvalidLabel /\ pc = "done")
         => /\ ~raised
            /\ slots[1].kind = "result"
            /\ response.agent_used = INTENT_ANALYTICS
            /\ \A i \in DOMAIN trace : trace[i] \in Range(Stages)

C22_Witness ==
    /\ classification = Some("SEO.")
    /\ pc = "done"
    /\ intent = INTENT_ANALYTICS
    /\ trace = Stages
    /\ response.agent_used = INTENT_ANALYTICS

\* ------------------------------------------------------------------------
\* Properties of the JSON flag (SpecMulti)
\* ------------------------------------------------------------------------

\* C23: the JSON flag is the lexical scan of the original query whatever the
\* intent, it is never recomputed after step 1, and every pipeline call of
\* the request, each sub-task's included, receives that value whatever the
\* text of its own query.
C23_JsonFlagOncePerRequest ==
    /\ [][IF pc = "start"
          THEN json_requested' = _detect_json_request(query)
          ELSE json_requested' = json_requested]_vars
    /\ [](run.agent \in { "analytics", "seo" }
            => run.json_requested = json_requested)

C23_Witness ==
    /\ pc = "gather" /\ running = 2
    /\ query = "page titles as JSON"
    /\ run.agent = "seo"
    /\ run.query = Some("pages with 404")
    /\ run.json_requested

\* ------------------------------------------------------------------------
\* Properties of failing collaborators
\* ------------------------------------------------------------------------

\* C24 (as claimed): whichever collaborator call fails for good, the
\* classification, decomposition and synthesis calls included,
\* process_query ends by returning a response with an answer, not by
\* raising.
C24_CollaboratorFailureIsAnswered ==
    pc = "done" => (~raised /\ response.answer # "")

\* C25 (as claimed): a JSON-mode call whose output does not parse (the call
\* raises) is replaced by its default: the analytics and SEO parse stages
\* go on with their default parse, and the decomposition goes on to the
\* sub-tasks with a fallback task list instead of ending the request.
C25_UnparsedJsonFallsBack ==
    [][/\ (run.agent = "analytics" /\ run.stage = "parse")
            => /\ run'.stage = "validate"
               /\ run'.extraction = "raise" => run'.parsed = ParseDefaults
       /\ (run.agent = "seo" /\ run.stage = "parse")
            => /\ run'.stage = "resolve"
               /\ run'.extraction = "raise"
                    => run'.parsed = SeoParseDefaults
       /\ (pc = "route" /\ intent = INTENT_MULTI)
            => /\ pc' = "gather"
               /\ ~raised']_vars

\* ------------------------------------------------------------------------
\* Properties of the synthesis stages (SpecSingle)
\* ------------------------------------------------------------------------

\* C26: a Synthesize step on an empty result makes no generation call; for
\* a non-JSON request its answer is the fixed text: for an analytics report
\* with row_count = 0 the no-data text (after the tier note, if any), for
\* an empty SEO result the no-results text with the number of rows of the
\* sheet and the number of filters applied; data is null.
C26_ZeroRowsNoGeneration ==
    [][/\ (/\ run.agent = "analytics" /\ run.stage = "synthesize"
           /\ run.data.row_count = 0)
            => /\ generationCalls' = 0
               /\ ~run.json_requested
                    => /\ outcome'.res.data = None
                       /\ outcome'.res.answer
                            = (IF _extended_enabled
                               THEN NoteFor(_extended_reason) ELSE "")
                              \o "No data found for the specified query. "
                              \o "This could mean:\n"
                              \o "- No traffic during the date range ("
                              \o run.parsed.start_date \o " to "
                              \o run.parsed.end_date \o ")\n"
                              \o "- The requested dimensions/metrics have "
                              \o "no recorded values\n"
                              \o "- The property ID may not have the "
                              \o "expected data"
       /\ (/\ run.agent = "seo" /\ run.stage = "synthesize"
           /\ IsEmptyTable(run.result_df))
            => /\ generationCalls' = 0
               /\ ~run.json_requested
                    => /\ outcome'.res.data = None
                       /\ outcome'.res.answer
                            = "No results found for your query. "
                              \o "Searched through "
                              \o ToString(Len(run.df.rows))
                              \o " rows with "
                              \o ToString(Len(run.parsed.filters))
                              \o " filter(s) applied."]_vars

C26_Witness ==
    /\ SeoRequest /\ CallEnded
    /\ ~json_requested
    /\ trace = << "Fetch", "Parse", "ColumnResolve", "Transform",
                  "Synthesize" >>
    /\ generationCalls = 0
    /\ outcome.res.answer = "No results found for your query. "
          \o "Searched through 3 rows with 1 filter(s) applied."

\* ------------------------------------------------------------------------
\* Properties of the returned response
\* ------------------------------------------------------------------------

\* C28 (as claimed): a response returned by process_query has the fields
\* answer, data and agent_used; agent_used is one of the three labels and
\* is the detected intent; answer is not the empty string.
C28_ResponseShape ==
    (pc = "done" /\ ~raised)
        => /\ DOMAIN response = { "answer", "data", "agent_used" }
           /\ response.agent_used \in IntentLabels
           /\ response.agent_used = intent
           /\ response.answer # ""

\* ------------------------------------------------------------------------
\* Properties of the aggregation (SpecCalls)
\* ------------------------------------------------------------------------

\* C27: for a non-JSON multi-agent request with at least one sub-result,
\* _aggregate_results attaches the merged data map, one entry per
\* sub-result that carries data, exactly when the rows of all its sources
\* sum to more than 5; otherwise data is null.
C27_MergedDataAboveFiveRows ==
    (/\ CallReturned("_aggregate_results")
     /\ ~run.args.json)
        => LET c == run.args.case
           IN  /\ run.result.data # None <=> c.total > 5
               /\ run.result.data # None
                    => DOMAIN run.result.data[1] = c.sources
               /\ run.result.answer = run.args.unified_answer

C27_Witness ==
    /\ CallReturned("_aggregate_results")
    /\ ~run.args.json
    /\ run.args.case.total = 6
    /\ Len(run.args.case.results) = 2
    /\ run.result.data # None
    /\ DOMAIN run.result.data[1] = {1, 2}

\* ------------------------------------------------------------------------
\* Properties of the property id check (SpecSingle)
\* ------------------------------------------------------------------------

\* A property id that is given but not purely numeric once a
\* 'properties/' prefix is removed.
InvalidPropertyId(pid) ==
    Truthy(pid) /\ ~IsDigit(Strip(Replace(pid[1], "properties/")))

\* C29: a run_report call with an invalid property id makes no API call
\* at all, is the only run_report call of the request (no retry), ends the
\* pipeline at Execute, and the pipeline returns the format message as the
\* answer with data = null.
C29_InvalidPropertyIsTerminal ==
    (AnalyticsRequest /\ runReportCalls > 0
       /\ InvalidPropertyId(reported.property_id))
        => /\ reported.attempts = 0
           /\ runReportCalls = 1
           /\ trace = << "Parse", "Validate", "Execute" >>
           /\ CallEnded
           /\ outcome = Returned(Resp(
                  PropertyFormatMsg(reported.property_id[1]), None,
                  "analytics"))

C29_Witness ==
    /\ AnalyticsRequest /\ pc = "done"
    /\ property_id = Some("abc")
    /\ reported.property_id = Some("abc")
    /\ reported.attempts = 0
    /\ runReportCalls = 1
    /\ response.answer = PropertyFormatMsg("abc")
    /\ response.data = None

\* ------------------------------------------------------------------------
\* Properties of the SEO Transform stage (SpecCalls)
\* ------------------------------------------------------------------------

\* A returned call of _process_data in which the grouping was applied.
GroupedCall ==
    /\ run.agent = "call" /\ run.op = "_process_data"
    /\ run.stage = "output"
    /\ Truthy(run.args.parsed.group_by)
    /\ run.args.parsed.group_by[1] \in DOMAIN run.args.resolved
    /\ run.args.resolved[run.args.parsed.group_by[1]]
          \in Range(run.args.df.columns)

\* C30 (as claimed): once the grouping was applied the sort stage leaves
\* the order of the grouped rows unchanged: the result is a result of the
\* same query without its sort field.
C30_SortKeepsGroupedOrder ==
    GroupedCall
        => run.result \in _process_data(run.args.df,
               [run.args.parsed EXCEPT !.sort_by.field = None],
               run.args.resolved)

\* A returned call of _process_data that grouped all rows of the table
\* with a supported aggregation and neither sorted nor cut the grouped rows.
AggregatedCall ==
    /\ GroupedCall
    /\ run.args.parsed.filters = << >>
    /\ run.args.parsed.aggregation
          \in { Some("count"), Some("percentage"), Some("sum"),
                Some("average") }
    /\ run.args.parsed.sort_by.field = None
    /\ run.args.parsed.limit = 100

\* C31 (as claimed): for count, percentage, sum and average the grouped
\* result has exactly one row per value of the group column, and its rows
\* are in descending order of the aggregated value.
C31_GroupedDescending ==
    AggregatedCall
        => LET rows == run.result.result_df.rows
               col == run.args.resolved[run.args.parsed.group_by[1]]
               agg == IF run.args.parsed.aggregation = Some("percentage")
                      THEN "percentage" ELSE "count"
           IN  /\ \A v \in { run.args.df.rows[i][col] :
                               i \in DOMAIN run.args.df.rows } :
                     Cardinality({ k \in DOMAIN rows : rows[k][col] = v })
                        = 1
               /\ Len(rows)
                     = Cardinality({ run.args.df.rows[i][col] :
                                       i \in DOMAIN run.args.df.rows })
               /\ \A k \in 1..(Len(rows) - 1) :
                     rows[k][agg] >= rows[k + 1][agg]

\* Whether the filter loop of _process_data can use a filter of the call:
\* its field is resolved and its column is in the table.
UsableFilter(f) ==
    /\ f.field \in DOMAIN run.args.resolved
    /\ run.args.resolved[f.field] \in Range(run.args.df.columns)

\* The filters of the call that can be used, in order.
UsableFilters ==
    LET fs == run.args.parsed.filters
        idx == SelectIdx(Len(fs), { i \in DOMAIN fs : UsableFilter(fs[i]) })
    IN  [k \in DOMAIN idx |-> fs[idx[k]]]

\* C32: a filter of a _process_data call whose field is not resolved, or
\* whose column the table does not have, changes nothing: the call returns
\* what the same query without such filters returns (so the filters after
\* it and the later stages ran), and it counts only the other filters as
\* applied.
C32_UnusableFilterSkipped ==
    (run.agent = "call" /\ run.op = "_process_data"
       /\ run.stage = "output")
        => /\ run.result \in _process_data(run.args.df,
                  [run.args.parsed EXCEPT !.filters = UsableFilters],
                  run.args.resolved)
           /\ run.result.info.filters_applied = Len(UsableFilters)

C32_Witness ==
    /\ run.agent = "call" /\ run.op = "_process_data"
    /\ run.stage = "output"
    /\ run.args.df = TableCrawl
    /\ Len(run.args.parsed.filters) = 2
    /\ run.args.parsed.filters[1].field = "depth"
    /\ run.args.parsed.group_by = None
    /\ run.args.parsed.limit = 100
    /\ run.args.parsed.select_columns = << "status code" >>
    /\ run.result.info.filters_applied = 1
    /\ run.result.result_df.rows
          = << ("Status Code" :> "404"), ("Status Code" :> "404") >>

\* ------------------------------------------------------------------------
\* Properties of the SEO fuzzy step (SpecCalls)
\* ------------------------------------------------------------------------

\* The similarity of candidate i of the call to its term.
Score(i) == Ratio(Lower(run.args.term), Lower(run.args.candidates[i]))

\* C33: _fuzzy_match returns a candidate exactly when some candidate
\* scores at least 0.8; the candidate returned has the highest score of
\* all, and is the first of the column order with that score.
C33_FuzzyBestFirst ==
    (run.agent = "call" /\ run.op = "_fuzzy_match"
       /\ run.stage = "output")
        => LET cs == run.args.candidates
               top == { i \in DOMAIN cs :
                          \A h \in DOMAIN cs : ~RatioGT(Score(h), Score(i)) }
           IN  /\ run.result # None
                    <=> \E i \in DOMAIN cs :
                           RatioGE(Score(i), FUZZY_NUM, FUZZY_DEN)
               /\ run.result # None
                    => /\ top # {}
                       /\ run.result = Some(cs[Min(top)])
                       /\ RatioGE(Score(Min(top)), FUZZY_NUM, FUZZY_DEN)

C33_Witness ==
    /\ run.agent = "call" /\ run.op = "_fuzzy_match"
    /\ run.stage = "output"
    /\ run.args.term = "status"
    /\ run.args.candidates = << "StatusA", "StatusB" >>
    /\ Score(1) = Score(2)
    /\ run.result = Some("StatusA")

\* ------------------------------------------------------------------------
\* Properties of the decomposition fallback (SpecMulti)
\* ------------------------------------------------------------------------

\* C34: when the decomposition call returned a value that is no list, the
\* sub-tasks are exactly two, the analytics pipeline on the original query
\* first and the SEO pipeline on the original query second; each runs
\* once, and their responses are the aggregated results in that order.
C34_NonListFallback ==
    decomposition = "nonlist"
        => /\ Len(tasks) = 2 /\ Len(slots) = 2
           /\ tasks[1].agent = "analytics" /\ tasks[1].sub_query = Some(query)
           /\ tasks[2].agent = "seo" /\ tasks[2].sub_query = Some(query)
           /\ running = 1 => (run.agent = "analytics"
                                /\ run.query = Some(query))
           /\ running = 2 => (run.agent = "seo" /\ run.query = Some(query))
           /\ Len(order) = Cardinality(Range(order))
           /\ pc \in { "aggregate", "done" }
                => /\ Range(order) = { 1, 2 }
                   /\ Len(results) = 2
                   /\ results[1] = slots[1].res
                   /\ results[1].agent_used = INTENT_ANALYTICS
                   /\ results[2] = slots[2].res
                   /\ results[2].agent_used = INTENT_SEO

C34_Witness ==
    /\ decomposition = "nonlist"
    /\ pc = "done" /\ ~raised
    /\ order = << 1, 2 >>
    /\ results[1].agent_used = INTENT_ANALYTICS
    /\ results[2].agent_used = INTENT_SEO
    /\ response.agent_used = INTENT_MULTI

\* ------------------------------------------------------------------------
\* Properties of the retry loops (SpecRetry)
\* ------------------------------------------------------------------------

\* A call of LLMClient.chat.
ChatCall == run.agent = "retry" /\ run.op = "chat"

\* An error chat retries: rate limit, timeout, or a status of 500 and
\* above.
Retryable(e) ==
    \/ e.kind \in { "RateLimitError", "APITimeoutError" }
    \/ e.kind = "APIError" /\ e.status # None /\ e.status[1] >= 500

ExecuteCall == run.agent = "retry" /\ run.op = "_execute_with_retry"

\* C36: _execute_with_retry makes at most three API calls and ends. It
\* returns at the first response; an error that is neither a rate limit
\* nor transient raises GA4APIError in the iteration it occurs (after a
\* single call when it is the first); three rate-limit or transient
\* failures in a row raise the 'temporarily unavailable' GA4APIError,
\* for which process() answers 'Error querying Google Analytics: ...'.
C36_ExecuteRetriesBounded ==
    /\ [](ExecuteCall
           => LET n == Len(run.errors)
                  Transient(e) ==
                      e.kind \in { "ResourceExhausted", "TransientError" }
              IN  /\ run.calls <= MAX_RETRIES
                  /\ \A i \in 1..(n - 1) : Transient(run.errors[i])
                  /\ run.stage = "loop"
                        => /\ run.calls = n /\ n < MAX_RETRIES
                           /\ \A i \in 1..n : Transient(run.errors[i])
                  /\ run.stage = "returned" => run.calls = n + 1
                  /\ run.stage = "raised"
                        => /\ run.calls = n /\ n >= 1
                           /\ run.result.kind = "GA4APIError"
                           /\ IF Transient(run.errors[n])
                              THEN /\ n = MAX_RETRIES
                                   /\ run.result.text
                                        = "Error querying Google Analytics: "
                                          \o "GA4 API temporarily "
                                          \o "unavailable after multiple "
                                          \o "retries. Please try again in "
                                          \o "a moment."
                              ELSE Len(run.waits) = n - 1)
    /\ ExecuteCall ~> (run.stage # "loop")

C36_Witness ==
    /\ ExecuteCall /\ run.stage = "raised"
    /\ run.calls = MAX_RETRIES
    /\ run.errors[1].kind = "ResourceExhausted"
    /\ run.errors[2].kind = "TransientError"
    /\ run.errors[3].kind = "ResourceExhausted"
    /\ run.waits = << 1, 2, 4 >>
    /\ run.result.kind = "GA4APIError"

\* ------------------------------------------------------------------------
\* Properties of the session cache (SpecCache)
\* ------------------------------------------------------------------------

\* The entries of the cache other than that of id stay as they are.
OthersKept(id) ==
    /\ DOMAIN _cache' \ { id } = DOMAIN _cache \ { id }
    /\ \A k \in DOMAIN _cache \ { id } : _cache'[k] = _cache[k]

\* C37: a fetch_sheet of a cached id without force_refresh returns the
\* cached table, fetches nothing and leaves the cache as it is; any other
\* fetch_sheet makes one API fetch, which on success stores the table
\* under the id and returns it, and on failure leaves the cache as it is;
\* clear_cache(id) removes the entry of id and no other. An entry thus
\* stays until it is cleared or fetched again.
C37_SessionCache ==
    [][/\ run'.op = "fetch_sheet"
            => LET id == run'.sheet_id[1]
                   cached == id \in DOMAIN _cache
               IN  /\ (cached /\ ~run'.force_refresh)
                        => /\ run'.fetches = 0
                           /\ run'.result = [kind |-> "ok",
                                             df |-> _cache[id]]
                           /\ _cache' = _cache
                   /\ (~cached \/ run'.force_refresh)
                        => /\ run'.fetches = 1
                           /\ run'.result.kind = "ok"
                                => /\ id \in DOMAIN _cache'
                                   /\ _cache'[id] = run'.result.df
                                   /\ OthersKept(id)
                           /\ run'.result.kind # "ok" => _cache' = _cache
       /\ (run'.op = "clear_cache" /\ run'.sheet_id # None)
            => /\ run'.sheet_id[1] \notin DOMAIN _cache'
               /\ OthersKept(run'.sheet_id[1])]_vars

C37_Witness ==
    /\ run.agent = "sheets" /\ run.op = "fetch_sheet"
    /\ run.sheet_id = Some("sheet1") /\ ~run.force_refresh
    /\ run.fetches = 0
    /\ run.result = [kind |-> "ok", df |-> TableMain]
    /\ DOMAIN _cache = { "sheet1", "sheet2" }
    /\ _cache["sheet2"] = TableDrift

\* ------------------------------------------------------------------------
\* Properties of the shared tier fields (SpecShared)
\* ------------------------------------------------------------------------

\* What _check_extended_triggers makes of a request's own query and parsed
\* fields on a freshly constructed agent.
OwnTier ==
    _check_extended_triggers(run.query[1], run.parsed.metrics,
                             run.parsed.dimensions, FALSE, "")

\* C38: for two analytics sub-tasks run by the same agent, in either order,
\* the tier fields Validate leaves, the names it accepts and the
\* acknowledgment that starts the answer of Synthesize are those the
\* request's own query and parsed fields give on a fresh agent, whatever
\* the other sub-task left in the agent's fields.
C38_TierIsolated ==
    [][(running # 0 /\ run.agent = "analytics" /\ run.query # None)
         => LET active == TierTriggered(run.query[1], run.parsed)
                okm == IF active THEN CORE_METRICS \cup EXTENDED_METRICS
                       ELSE CORE_METRICS
                okd == IF active
                       THEN CORE_DIMENSIONS \cup EXTENDED_DIMENSIONS
                       ELSE CORE_DIMENSIONS
            IN  /\ run.stage = "validate"
                     => /\ _extended_enabled' = active
                        /\ OwnTier.enabled = active
                        /\ _extended_reason' = OwnTier.reason
                        /\ run'.stage = "execute"
                             <=> /\ Range(run.parsed.metrics) \subseteq okm
                                 /\ Range(run.parsed.dimensions)
                                      \subseteq okd
                /\ (run.stage = "synthesize" /\ ~outcome'.raised)
                     => IF active
                        THEN IsPrefix(NoteFor(OwnTier.reason),
                                      outcome'.res.answer)
                        ELSE ~IsPrefix("(Note: ", outcome'.res.answer)]_vars

C38_Witness ==
    /\ pc = "gather" /\ running = 0
    /\ tasks[1].sub_query = Some("Revenue by country")
    /\ tasks[2].sub_query = Some("top pages by sessions")
    /\ order = << 1, 2 >>
    /\ slots[1].kind = "result" /\ slots[2].kind = "result"
    /\ IsPrefix(NoteFor("query mentions 'revenue'"), slots[1].res.answer)
    /\ slots[2].res.data # None
    /\ ~IsPrefix("(Note: ", slots[2].res.answer)
    /\ ~_extended_enabled

\* ------------------------------------------------------------------------
\* Properties of the tier gating (SpecSingle)
\* ------------------------------------------------------------------------

\* The parsed names of the request outside the catalogs: metrics that are
\* neither core nor extended metrics, dimensions likewise.
OffCatalog ==
    (Range(run.parsed.metrics) \ (CORE_METRICS \cup EXTENDED_METRICS))
    \cup (Range(run.parsed.dimensions)
            \ (CORE_DIMENSIONS \cup EXTENDED_DIMENSIONS))

\* C39: Validate rejects no catalog name. When every parsed metric is a
\* core or extended metric and every parsed dimension a core or extended
\* dimension, the request goes on to Execute with the parsed names as they
\* are, whatever the query text; and a ValidationError names a parsed field
\* that is in neither catalog.
C39_CatalogNamesPass ==
    [][(run.agent = "analytics" /\ run.stage = "validate"
        /\ run.query # None)
          => /\ OffCatalog = {}
                  => /\ run'.stage = "execute"
                     /\ run'.metrics = run.parsed.metrics
                     /\ run'.dimensions = run.parsed.dimensions
             /\ OffCatalog # {}
                  => /\ ~outcome'.raised
                     /\ \E f \in OffCatalog :
                          Contains("'" \o f \o "' is not",
                                   outcome'.res.answer)]_vars

C39_Witness ==
    /\ AnalyticsRequest /\ pc = "done"
    /\ query = "top pages by sessions"
    /\ reported.metrics = << "activeUsers" >>
    /\ reported.dimensions = << "itemName" >>
    /\ runReportCalls = 1
    /\ _extended_reason = "dimension 'itemName' requires extended tier"

====
